---- MODULE Spec2Model ----
(***************************************************************************)
(* Render Context of the Vulkan-Project repository: the frame              *)
(* synchronisation protocol (BeginFrame / EndFrame), the swapchain         *)
(* lifecycle (RecreateSwapchain) and the Engine's Render loop, together    *)
(* with the GPU queues and the window system they talk to.                 *)
(*                                                                         *)
(* The CPU thread is a program counter `pc`; a handler is split only at    *)
(* the calls where it blocks (vkWaitForFences, glfwWaitEvents,             *)
(* vkDeviceWaitIdle), so that the GPU and the window system can take steps *)
(* while the thread is blocked.                                            *)
(***************************************************************************)
EXTENDS Integers, Sequences, FiniteSets, TLC

(***************************************************************************)
(* Program constants.                                                      *)
(***************************************************************************)
kMaxFramesInFlight == 2

Slots == 0 .. (kMaxFramesInFlight - 1)

(***************************************************************************)
(* Bounds of the model.                                                    *)
(***************************************************************************)
\* largest minImageCount a surface reports
MaxSurfaceMinImages == 2

\* largest number of formats a surface reports
MaxSurfaceFormats == 2

\* largest number of textures the application creates
MaxTextures == 2

\* largest bufferSize of a vertex or index buffer, in bytes
MaxBufferSize == 2

\* largest number of vertex and index buffers the application creates
MaxStaticBuffers == 2

\* largest number of nodes of the scene
MaxSceneNodes == 2

\* largest number of layout transitions that are rejected
MaxRejectedTransitions == 2

\* largest number of Engine Add* calls of a setup
MaxAddCalls == 4

\* largest component id an Add* call is given
MaxComponentId == 1

\* largest number of AddMesh and AddProgram calls of a setup that is
\* followed by the frame loop
MaxSetupCalls == 3

\* how many objects the Create* operations of a setup create
MaxCreatedResources == 4

(***************************************************************************)
(* Values.                                                                 *)
(***************************************************************************)
VkResults == {"VK_SUCCESS", "VK_SUBOPTIMAL_KHR", "VK_ERROR_OUT_OF_DATE_KHR",
              "VK_ERROR_DEVICE_LOST"}
SubmitResults == {"VK_SUCCESS", "VK_ERROR_DEVICE_LOST"}
NoResult == "none"

\* framebuffer sizes the window system reports; <<0, 0>> is a minimised window
Extents == {<<0, 0>>, <<640, 480>>, <<800, 600>>}

NoImage == -1

\* std::numeric_limits<uint32_t>::max(), the width of currentExtent when the
\* surface takes any size (the largest integer of the model stands for it)
Uint32Max == 2147483647

\* minImageExtent / maxImageExtent values of a surface that takes any size
SurfaceExtentLimits == {<<1, 1>>, <<700, 500>>, <<720, 720>>, <<4096, 4096>>}

VkFormats == {"VK_FORMAT_B8G8R8A8_SRGB", "VK_FORMAT_B8G8R8A8_UNORM"}
VkColorSpaces == {"VK_COLOR_SPACE_SRGB_NONLINEAR_KHR",
                  "VK_COLOR_SPACE_DISPLAY_P3_NONLINEAR_EXT"}
VkSurfaceFormats == [format : VkFormats, colorSpace : VkColorSpaces]

VkImageLayouts == {"VK_IMAGE_LAYOUT_UNDEFINED",
                   "VK_IMAGE_LAYOUT_GENERAL",
                   "VK_IMAGE_LAYOUT_COLOR_ATTACHMENT_OPTIMAL",
                   "VK_IMAGE_LAYOUT_TRANSFER_DST_OPTIMAL",
                   "VK_IMAGE_LAYOUT_SHADER_READ_ONLY_OPTIMAL"}

\* values of imageData->Components()
ImageComponents == 1 .. 5

NoTransition == [called |-> FALSE]

\* no exception has been thrown
NoException == "none"

\* the handles Context::Initialize creates before the swapchain
DeviceHandles == {"window_", "instance_", "surface_", "device_"}

\* the vectors CreateSyncObjects fills
SyncObjectTables == {"imageAvailableSemaphores_", "renderFinishedSemaphores_",
                     "inFlightFences_"}

\* the vectors the Create* operations push onto (textureImages_ and the
\* swapchain's vectors have variables of their own)
TrackedTables == {"samplers_", "uniformBuffers_", "uniformBufferMemories_",
                  "descriptorPools_", "descriptorSetLayouts_", "pipelines_",
                  "pipelineLayouts_", "framebuffers_", "renderPasses_",
                  "shaderModules_", "imageViews_", "commandPools_",
                  "vertexBuffers_", "vertexBufferMemories_", "indexBuffers_",
                  "indexBufferMemories_"}

ResourceKinds == DeviceHandles \cup SyncObjectTables \cup TrackedTables

\* nothing has been created
NoObjects == [k \in ResourceKinds |-> 0]

\* the maps of the Engine's components_; resources_ has an entry under the
\* same id for the kinds that own Context objects
ComponentKinds == {"vertexShaders", "fragmentShaders", "programs", "meshes",
                   "textures", "materials", "surfaces", "nodes"}

\* CreateTextureImage has not been called
NoTexture == [called |-> FALSE]

\* the values of a byte of buffer data (two stand for the 256)
Bytes == {0, 1}

\* the bufferData a caller passes: at least one byte
BufferData == UNION {[1 .. n -> Bytes] : n \in 1 .. MaxBufferSize}

\* what CreateBuffer throws when vkCreateBuffer or vkAllocateMemory fails
CreateBufferErrors == {"failed to create buffer!",
                       "failed to allocate buffer memory!"}

\* no static buffer creation is under way
NoUpload == [called |-> FALSE]

VARIABLES
  pc,                          \* position of the CPU thread
  currentFrame_,               \* Context::currentFrame_
  inFlightFences_,             \* slot -> BOOLEAN (signaled)
  imageAvailableSemaphores_,   \* slot -> number of acquisitions signalling it, not yet waited
  renderFinishedSemaphores_,   \* index -> number of signals not yet waited
  currentSwapchainImageIndex_, \* Context::currentSwapchainImageIndex_
  framebufferResized_,         \* Context::framebufferResized_
  swapchainImages,             \* image index -> "free" | "acquired" | "queued"
  swapchainId,                 \* identity of the live swapchain (toggles on rebuild)
  swapchainExtent,             \* swapchain_.extent
  swapChainImageFormat_,       \* format of the swapchain images
  swapchainImageViews_,        \* number of live swapchain image views
  imageViewHandles,            \* number of handles the vector swapchainImageViews_ holds
  swapchainFramebuffers_,      \* number of live swapchain framebuffers
  graphicsQueue_,              \* submissions not yet retired, in submission order
  presentQueue_,               \* present requests whose semaphore wait has not executed
  windowExtent,                \* what glfwGetFramebufferSize returns
  pendingEvent,                \* window event not yet delivered: "none" | "input" | "resize"
  localExtent,                 \* width, height locals of RecreateSwapchain
  recreateCaller,              \* which handler is inside RecreateSwapchain
  acquireResult,               \* VkResult of the last vkAcquireNextImageKHR
  presentResult,               \* VkResult of the last vkQueuePresentKHR
  submitResult,                \* VkResult of the last vkQueueSubmit
  beginFrameInfo,              \* BeginFrameInfo::ifSwapchainRecreated of the last BeginFrame
  bufferId_,                   \* Engine::bufferId_
  commandBuffers_,             \* slot -> swapchain image its recorded render pass targets
  uniformBufferMappedMemories_,\* slot -> 1 once UpdateUniformBuffer has written it
  surfaceMinImages,            \* VkSurfaceCapabilitiesKHR::minImageCount
  surfaceMaxImages,            \* VkSurfaceCapabilitiesKHR::maxImageCount (0: no limit)
  surfaceReportsExtent,        \* currentExtent is the surface's size (else the "any size" value)
  surfaceMinExtent,            \* minImageExtent of a surface that takes any size
  surfaceMaxExtent,            \* maxImageExtent of a surface that takes any size
  surfaceFormats,              \* the formats vkGetPhysicalDeviceSurfaceFormatsKHR lists
  textureImageLayout,          \* layout of the image CreateTextureImage works on
  textureCommands,             \* commands executed on that image, in order
  stagingBuffers,              \* staging buffers created and not destroyed
  textureImages_,              \* number of entries of Context::textureImages_
  lastTransition,              \* arguments and outcome of a TransitionImageLayout call
  textureOptions,              \* image data of the last CreateTextureImage call
  exception,                   \* what() of the exception a resource operation threw
  resources,                   \* Context table or handle -> number of live objects
  destroyed,                   \* tables and handles in the order Cleanup released them
  uploadOptions,               \* options of the static buffer creation under way
  stagingMemory,               \* bytes of the staging buffer's memory
  deviceLocalMemory,           \* bytes of the device-local buffer's memory
  oneTimeCommandBuffers,       \* single-time command buffers allocated and not freed
  uploadCommands,              \* what a static buffer creation did on the device, in order
  sceneNodes,                  \* number of nodes of the Engine's scene
  components_,                 \* Engine table -> its components, each the ids it refers to
  resources_,                  \* Engine table -> the uniform buffers of each resource entry
  lastAdd,                     \* the last Engine Add* call and its outcome
  addCalls,                    \* number of Engine Add* calls made
  commandBufferDraws,          \* slot -> the nodes whose draw its command buffer holds
  recordedInFrame              \* RecordCommandBuffer ran between BeginFrame and EndFrame

ctxVars == <<currentFrame_, inFlightFences_, imageAvailableSemaphores_,
             renderFinishedSemaphores_, currentSwapchainImageIndex_,
             framebufferResized_>>
swapVars == <<swapchainImages, swapchainId, swapchainExtent,
              swapChainImageFormat_, swapchainImageViews_,
              swapchainFramebuffers_, imageViewHandles>>
gpuVars == <<graphicsQueue_, presentQueue_>>
winVars == <<windowExtent, pendingEvent>>
engineVars == <<bufferId_, commandBuffers_, uniformBufferMappedMemories_,
                commandBufferDraws, recordedInFrame>>
surfaceVars == <<surfaceMinImages, surfaceMaxImages, surfaceReportsExtent,
                 surfaceMinExtent, surfaceMaxExtent, surfaceFormats>>
localVars == <<localExtent, recreateCaller, acquireResult, presentResult,
               submitResult, beginFrameInfo>>

tableVars == <<resources, destroyed>>
uploadVars == <<uploadOptions, stagingMemory, deviceLocalMemory,
                oneTimeCommandBuffers, uploadCommands>>
sceneVars == <<sceneNodes, components_, resources_, lastAdd, addCalls>>

resourceVars == <<textureImageLayout, textureCommands, stagingBuffers,
                  textureImages_, lastTransition, textureOptions, exception,
                  tableVars, uploadVars>>

\* what is set before the frame loop starts and the loop never changes
setupVars == <<surfaceVars, resourceVars, sceneVars>>

vars == <<pc, ctxVars, swapVars, gpuVars, winVars, engineVars, surfaceVars,
          resourceVars, sceneVars, localVars>>

(***************************************************************************)
(* Pure helpers.                                                           *)
(***************************************************************************)
\* Context::CreateSwapChain: min + 1 images, reduced to max when max > 0
ChooseImageCount_NoClamp(minImages, maxImages) == minImages + 1
ChooseImageCount(minImages, maxImages) ==
  IF maxImages > 0 /\ minImages + 1 > maxImages
    THEN maxImages
    ELSE minImages + 1

\* width == 0 || height == 0
IsMinimized(extent) == extent[1] = 0 \/ extent[2] = 0

\* QuerySwapChainSupport: the capabilities the surface reports for a
\* framebuffer of the given size.  A surface that reports its size accepts
\* that size only.
SurfaceCapabilities(framebufferSize) ==
  IF surfaceReportsExtent
    THEN [currentExtent |-> framebufferSize,
          minImageExtent |-> framebufferSize,
          maxImageExtent |-> framebufferSize]
    ELSE [currentExtent |-> <<Uint32Max, Uint32Max>>,
          minImageExtent |-> surfaceMinExtent,
          maxImageExtent |-> surfaceMaxExtent]

\* std::clamp(v, lo, hi)
Clamp(v, lo, hi) == IF v < lo THEN lo ELSE IF hi < v THEN hi ELSE v

\* Context::ChooseSwapExtent; framebufferSize is what glfwGetFramebufferSize
\* returns
ChooseSwapExtent_Unclamped(capabilities, framebufferSize) ==
  IF capabilities.currentExtent[1] # Uint32Max
    THEN capabilities.currentExtent
    ELSE framebufferSize
ChooseSwapExtent(capabilities, framebufferSize) ==
  IF capabilities.currentExtent[1] # Uint32Max
    THEN capabilities.currentExtent
    ELSE <<Clamp(framebufferSize[1], capabilities.minImageExtent[1],
                 capabilities.maxImageExtent[1]),
           Clamp(framebufferSize[2], capabilities.minImageExtent[2],
                 capabilities.maxImageExtent[2])>>

\* the entries of availableFormats that are B8G8R8A8_SRGB with the sRGB
\* non-linear colour space
PreferredFormats_FirstOnly(availableFormats) ==
  {k \in {1} :
     /\ availableFormats[k].format = "VK_FORMAT_B8G8R8A8_SRGB"
     /\ availableFormats[k].colorSpace = "VK_COLOR_SPACE_SRGB_NONLINEAR_KHR"}
PreferredFormats(availableFormats) ==
  {k \in 1 .. Len(availableFormats) :
     /\ availableFormats[k].format = "VK_FORMAT_B8G8R8A8_SRGB"
     /\ availableFormats[k].colorSpace = "VK_COLOR_SPACE_SRGB_NONLINEAR_KHR"}

\* Context::ChooseSwapSurfaceFormat: the first preferred entry, else the
\* first entry
ChooseSwapSurfaceFormat_Rotating(availableFormats) ==
  availableFormats[IF swapchainId = 1 THEN 1 ELSE Len(availableFormats)]
ChooseSwapSurfaceFormat(availableFormats) ==
  IF PreferredFormats(availableFormats) # {}
    THEN availableFormats[CHOOSE k \in PreferredFormats(availableFormats) :
                            \A j \in PreferredFormats(availableFormats) : k <= j]
    ELSE availableFormats[1]

\* swapchainFramebuffers_.clear() in CleanupSwapchain
ClearedFramebuffers_Kept(count) == count
ClearedFramebuffers(count) == 0

\* currentFrame_ = (currentFrame_ + 1) % kMaxFramesInFlight
AdvanceFrame_Stuck(frame) == IF frame + 1 < kMaxFramesInFlight THEN frame + 1 ELSE frame
AdvanceFrame(frame) == (frame + 1) % kMaxFramesInFlight

\* the entry of renderFinishedSemaphores_ that EndFrame signals and presents on
RenderFinishedIndex(frame, image) == frame

\* the entry of imageAvailableSemaphores_ that EndFrame's submission waits on
WaitSemaphoreIndex_First(frame) == 0
WaitSemaphoreIndex(frame) == frame

\* the number of entries CreateSyncObjects gives renderFinishedSemaphores_
RenderFinishedCount(imageCount) == kMaxFramesInFlight

\* vkWaitForFences on the slot's fence returns
FenceWait_NoWait(fences, frame) == TRUE
FenceWait(fences, frame) == fences[frame]

\* vkResetFences on the slot's fence
ResetFence_NoReset(fences, frame) == fences
ResetFence(fences, frame) == [fences EXCEPT ![frame] = FALSE]

\* BeginFrame: result == VK_ERROR_OUT_OF_DATE_KHR
AcquireNeedsRecreate_AlsoSuboptimal(result) ==
  result \in {"VK_ERROR_OUT_OF_DATE_KHR", "VK_SUBOPTIMAL_KHR"}
AcquireNeedsRecreate(result) == result = "VK_ERROR_OUT_OF_DATE_KHR"

\* BeginFrame: result != VK_SUCCESS && result != VK_SUBOPTIMAL_KHR
AcquireFailed(result) ==
  result # "VK_SUCCESS" /\ result # "VK_SUBOPTIMAL_KHR"

\* EndFrame: OUT_OF_DATE || SUBOPTIMAL || framebufferResized_
PresentNeedsRecreate_NoResize(result, resized) ==
  result = "VK_ERROR_OUT_OF_DATE_KHR" \/ result = "VK_SUBOPTIMAL_KHR"
PresentNeedsRecreate_NoSuboptimal(result, resized) ==
  result = "VK_ERROR_OUT_OF_DATE_KHR" \/ resized
PresentNeedsRecreate(result, resized) ==
  \/ result = "VK_ERROR_OUT_OF_DATE_KHR"
  \/ result = "VK_SUBOPTIMAL_KHR"
  \/ resized

\* vkDeviceWaitIdle returns: no queue has outstanding work
DeviceIdle_NoWait(gq, pq) == TRUE
DeviceIdle(gq, pq) == gq = <<>> /\ pq = <<>>

\* the elements of a sequence
Range(seq) == {seq[i] : i \in DOMAIN seq}

\* the images of a freshly created swapchain
FreshImages(n) == [i \in 0 .. (n - 1) |-> "free"]

\* the image BeginFrame acquired has not been handed to vkQueuePresentKHR yet
ImageAcquired ==
  /\ currentSwapchainImageIndex_ \in DOMAIN swapchainImages
  /\ swapchainImages[currentSwapchainImageIndex_] = "acquired"

\* the process is still running (an exception ends main)
Running == pc \notin {"failed", "undefined"}

FreeImages == {i \in DOMAIN swapchainImages : swapchainImages[i] = "free"}

\* glfwPollEvents / glfwWaitEvents run FramebufferResizeCallback for a resize
DeliverEvents(resized, event) == resized \/ event = "resize"

(***************************************************************************)
(* Initial state: after Context::Initialize and Engine::Initialize.        *)
(***************************************************************************)
\* sequences of distinct surface formats, at least one
SurfaceFormatLists ==
  {f \in UNION {[1 .. n -> VkSurfaceFormats] : n \in 1 .. MaxSurfaceFormats} :
     \A i, j \in DOMAIN f : f[i] = f[j] => i = j}

\* The surface of the frame-loop specifications: it reports its size, lists
\* the preferred format, and allows no spare image or any number of them.
InitSurface ==
  /\ surfaceMinImages \in 1 .. MaxSurfaceMinImages
  \* maxImageCount is 0 (no limit) or at least minImageCount
  /\ surfaceMaxImages \in {0, surfaceMinImages}
  /\ surfaceReportsExtent = TRUE
  /\ surfaceMinExtent = <<1, 1>>
  /\ surfaceMaxExtent = <<4096, 4096>>
  /\ surfaceFormats = <<[format |-> "VK_FORMAT_B8G8R8A8_SRGB",
                         colorSpace |-> "VK_COLOR_SPACE_SRGB_NONLINEAR_KHR"]>>

\* Any surface: image counts, extent limits and format lists of every kind.
InitSurfaceAny ==
  /\ surfaceMinImages \in 1 .. MaxSurfaceMinImages
  /\ surfaceMaxImages \in {0} \cup (surfaceMinImages .. (surfaceMinImages + 2))
  /\ surfaceReportsExtent \in BOOLEAN
  /\ surfaceMinExtent \in SurfaceExtentLimits
  /\ surfaceMaxExtent \in SurfaceExtentLimits
  /\ surfaceMinExtent[1] <= surfaceMaxExtent[1]
  /\ surfaceMinExtent[2] <= surfaceMaxExtent[2]
  \* a surface that reports its size has no separate limits
  /\ surfaceReportsExtent =>
       (surfaceMinExtent = <<1, 1>> /\ surfaceMaxExtent = <<4096, 4096>>)
  /\ surfaceFormats \in SurfaceFormatLists

\* Context state that CreateSyncObjects and Engine::Initialize set up, with
\* nothing submitted and no window event pending.
InitFrameState ==
  /\ currentFrame_ = 0
  /\ inFlightFences_ = [i \in Slots |-> TRUE]
  /\ imageAvailableSemaphores_ = [i \in Slots |-> 0]
  /\ renderFinishedSemaphores_ =
       [i \in 0 .. (RenderFinishedCount(
                      ChooseImageCount(surfaceMinImages, surfaceMaxImages)) - 1)
          |-> 0]
  /\ currentSwapchainImageIndex_ = 0
  /\ framebufferResized_ = FALSE
  /\ graphicsQueue_ = <<>>
  /\ presentQueue_ = <<>>
  /\ pendingEvent = "none"
  /\ localExtent = <<0, 0>>
  /\ recreateCaller = "none"
  /\ acquireResult = NoResult
  /\ presentResult = NoResult
  /\ submitResult = NoResult
  /\ beginFrameInfo = FALSE
  /\ bufferId_ = 0
  /\ commandBuffers_ = [i \in Slots |-> NoImage]
  /\ commandBufferDraws = [i \in Slots |-> <<>>]
  /\ recordedInFrame = FALSE

\* The Engine's tables after the setup of the demos, as far as Render reads
\* them: one program whose uniform buffers are the first the Context
\* created, one surface of that program and one node of that surface.
InitEngineTables ==
  /\ uniformBufferMappedMemories_ = [i \in Slots |-> 0]
  /\ components_ =
       [k \in ComponentKinds |->
          IF k = "programs" THEN << <<0, 0>> >>
          ELSE IF k = "materials" THEN << <<0>> >>
          ELSE IF k = "surfaces" THEN << <<0, 0, 0>> >>
          ELSE IF k = "nodes" THEN << <<0>> >>
          ELSE << <<>> >>]
  /\ resources_ =
       [k \in ComponentKinds |->
          IF k = "programs" THEN << [i \in 1 .. kMaxFramesInFlight |-> i - 1] >>
          ELSE IF k \in {"vertexShaders", "fragmentShaders", "meshes",
                         "textures"}
            THEN << <<>> >>
          ELSE <<>>]
  /\ lastAdd = [operation |-> "AddNode", thrown |-> FALSE, id |-> 0]
  /\ addCalls = 0

\* Context::Initialize up to the logical device and its queues: InitWindow,
\* the instance, the window surface, the device
CreateDeviceHandles(objects) ==
  [k \in ResourceKinds |-> IF k \in DeviceHandles THEN 1 ELSE objects[k]]

\* Context::CreateSyncObjects: kMaxFramesInFlight semaphores of each kind and
\* as many fences
CreateSyncObjects(objects) ==
  [k \in ResourceKinds |->
     IF k \in SyncObjectTables THEN kMaxFramesInFlight ELSE objects[k]]

\* no texture and no buffer has been created, nothing has thrown
InitResources ==
  /\ textureImageLayout = "none"
  /\ textureCommands = <<>>
  /\ stagingBuffers = 0
  /\ textureImages_ = 0
  /\ lastTransition = NoTransition
  /\ textureOptions = NoTexture
  /\ exception = NoException
  /\ destroyed = <<>>
  /\ uploadOptions = NoUpload
  /\ stagingMemory = <<>>
  /\ deviceLocalMemory = <<>>
  /\ oneTimeCommandBuffers = 0
  /\ uploadCommands = <<>>

\* the handles and tables after Context::Initialize
InitContextObjects ==
  resources = CreateSyncObjects(CreateDeviceHandles(NoObjects))

\* the scene of the demos: one node
InitSingleNodeScene == sceneNodes = 1

\* the window and the swapchain after Context::Initialize and
\* Engine::Initialize
InitSwapchainReady ==
  /\ windowExtent = <<800, 600>>
  /\ swapchainImages =
       FreshImages(ChooseImageCount(surfaceMinImages, surfaceMaxImages))
  /\ swapchainId = 0
  /\ swapchainExtent =
       ChooseSwapExtent(SurfaceCapabilities(windowExtent), windowExtent)
  /\ swapChainImageFormat_ = ChooseSwapSurfaceFormat(surfaceFormats).format
  /\ swapchainImageViews_ = ChooseImageCount(surfaceMinImages, surfaceMaxImages)
  /\ imageViewHandles = ChooseImageCount(surfaceMinImages, surfaceMaxImages)
  /\ swapchainFramebuffers_ = ChooseImageCount(surfaceMinImages, surfaceMaxImages)

Init ==
  /\ InitSurface
  /\ InitFrameState
  /\ InitEngineTables
  /\ InitResources
  /\ InitContextObjects
  /\ InitSingleNodeScene
  /\ InitSwapchainReady
  /\ pc = "loop"

(***************************************************************************)
(* The GPU and the presentation engine.                                    *)
(***************************************************************************)
\* Signalling a binary semaphore that is already signaled is invalid usage:
\* the signal is either lost or kept, whichever the driver does.
SignalOutcomes(n) == IF n = 0 THEN {1} ELSE {n, IF n < 2 THEN n + 1 ELSE n}

\* The oldest submission executes: it waits the slot's "image available"
\* semaphore, signals its "render finished" semaphore and the slot's fence.
GpuRetire ==
  /\ Running
  /\ graphicsQueue_ # <<>>
  /\ LET s == Head(graphicsQueue_) IN
       /\ imageAvailableSemaphores_[s.wait] >= 1
       /\ imageAvailableSemaphores_' =
            [imageAvailableSemaphores_ EXCEPT ![s.wait] = @ - 1]
       /\ inFlightFences_' = [inFlightFences_ EXCEPT ![s.slot] = TRUE]
       /\ \E n \in SignalOutcomes(renderFinishedSemaphores_[s.signal]) :
            renderFinishedSemaphores_' =
              [renderFinishedSemaphores_ EXCEPT ![s.signal] = n]
  /\ graphicsQueue_' = Tail(graphicsQueue_)
  /\ UNCHANGED <<pc, currentFrame_, currentSwapchainImageIndex_,
                 framebufferResized_, swapVars, presentQueue_, winVars,
                 engineVars, setupVars, localVars>>

\* The oldest present request executes its semaphore wait; the image goes
\* back to the presentation engine and can be acquired again.
PresentExecute ==
  /\ Running
  /\ presentQueue_ # <<>>
  /\ LET p == Head(presentQueue_) IN
       /\ renderFinishedSemaphores_[p.wait] >= 1
       /\ renderFinishedSemaphores_' =
            [renderFinishedSemaphores_ EXCEPT ![p.wait] = @ - 1]
       /\ swapchainImages' =
            IF p.swapchain = swapchainId /\ p.image \in DOMAIN swapchainImages
              THEN [swapchainImages EXCEPT ![p.image] = "free"]
              ELSE swapchainImages
  /\ presentQueue_' = Tail(presentQueue_)
  /\ UNCHANGED <<pc, currentFrame_, inFlightFences_, imageAvailableSemaphores_,
                 currentSwapchainImageIndex_, framebufferResized_,
                 swapchainId, swapchainExtent, swapChainImageFormat_,
                 swapchainImageViews_, swapchainFramebuffers_,
                 imageViewHandles, graphicsQueue_, winVars, engineVars,
                 setupVars, localVars>>

(***************************************************************************)
(* The window system.                                                      *)
(***************************************************************************)
\* The user resizes, minimises or restores the window.
WindowResize ==
  /\ Running
  /\ \E extent \in Extents \ {windowExtent} : windowExtent' = extent
  /\ pendingEvent' = "resize"
  /\ UNCHANGED <<pc, ctxVars, swapVars, gpuVars, engineVars, setupVars,
                 localVars>>

\* Any other window event (keyboard, mouse, focus).
WindowInput ==
  /\ Running
  /\ pendingEvent = "none"
  /\ pendingEvent' = "input"
  /\ UNCHANGED <<pc, ctxVars, swapVars, gpuVars, windowExtent, engineVars,
                 setupVars, localVars>>

(***************************************************************************)
(* The main loop of the demos: glfwPollEvents, then Engine::Render.        *)
(***************************************************************************)
MainLoopPoll ==
  /\ pc = "loop"
  /\ framebufferResized_' = DeliverEvents(framebufferResized_, pendingEvent)
  /\ pendingEvent' = "none"
  /\ pc' = "begin"
  /\ UNCHANGED <<currentFrame_, inFlightFences_, imageAvailableSemaphores_,
                 renderFinishedSemaphores_, currentSwapchainImageIndex_,
                 swapVars, gpuVars, windowExtent, engineVars, setupVars,
                 localVars>>

(***************************************************************************)
(* Context::RecreateSwapchain.                                             *)
(***************************************************************************)
\* The part of RecreateSwapchain up to its first blocking call: the size is
\* read, and read again inside the loop if the window is minimised.
EnterRecreateSwapchain(caller) ==
  /\ recreateCaller' = caller
  /\ localExtent' = windowExtent
  /\ pc' = IF IsMinimized(windowExtent) THEN "rc_wait_events" ELSE "rc_idle"

\* glfwWaitEvents returns inside the minimisation loop; the loop condition
\* is tested on the size read before the wait.
RecreateWaitEvents ==
  /\ pc = "rc_wait_events"
  /\ pendingEvent # "none"
  /\ framebufferResized_' = DeliverEvents(framebufferResized_, pendingEvent)
  /\ pendingEvent' = "none"
  /\ IF IsMinimized(localExtent)
       THEN /\ localExtent' = windowExtent
            /\ pc' = "rc_wait_events"
       ELSE /\ localExtent' = localExtent
            /\ pc' = "rc_idle"
  /\ UNCHANGED <<currentFrame_, inFlightFences_, imageAvailableSemaphores_,
                 renderFinishedSemaphores_, currentSwapchainImageIndex_,
                 swapVars, gpuVars, windowExtent, engineVars, setupVars,
                 recreateCaller, acquireResult, presentResult, submitResult,
                 beginFrameInfo>>

\* Context::CreateSwapchain: a swapchain with the requested number of
\* images, the chosen extent and format, and one image view per image.
CreateSwapchain ==
  LET n == ChooseImageCount(surfaceMinImages, surfaceMaxImages) IN
    /\ swapchainImages' = FreshImages(n)
    /\ swapchainId' = 1 - swapchainId
    /\ swapchainExtent' =
         ChooseSwapExtent(SurfaceCapabilities(windowExtent), windowExtent)
    /\ swapChainImageFormat_' = ChooseSwapSurfaceFormat(surfaceFormats).format
    /\ swapchainImageViews_' = n
    /\ imageViewHandles' = n

\* Context::CreateSwapchainFramebuffers: one push_back per image view onto
\* a vector that holds `before` framebuffers.
CreateSwapchainFramebuffers(before, views) ==
  swapchainFramebuffers_' = before + views

\* Context::CleanupSwapchain followed by CreateSwapchain and
\* CreateSwapchainFramebuffers.
RebuildSwapchain ==
  /\ CreateSwapchain
  /\ CreateSwapchainFramebuffers(ClearedFramebuffers(swapchainFramebuffers_),
                                 swapchainImageViews_')

\* vkDeviceWaitIdle returns, the swapchain is rebuilt, and the handler that
\* called RecreateSwapchain runs to its end.
RecreateFinish ==
  /\ pc = "rc_idle"
  /\ DeviceIdle(graphicsQueue_, presentQueue_)
  /\ RebuildSwapchain
  /\ IF recreateCaller = "BeginFrame"
       THEN /\ beginFrameInfo' = TRUE
            /\ currentFrame_' = currentFrame_
            /\ pc' = "begin_ret"
       ELSE /\ beginFrameInfo' = beginFrameInfo
            /\ currentFrame_' = AdvanceFrame(currentFrame_)
            /\ pc' = "end_ret"
  /\ recreateCaller' = "none"
  /\ UNCHANGED <<inFlightFences_, imageAvailableSemaphores_,
                 renderFinishedSemaphores_, currentSwapchainImageIndex_,
                 framebufferResized_, gpuVars, winVars, engineVars,
                 setupVars, localExtent, acquireResult, presentResult,
                 submitResult>>

(***************************************************************************)
(* Context::BeginFrame.                                                    *)
(***************************************************************************)
BeginFrame ==
  /\ pc = "begin"
  /\ FenceWait(inFlightFences_, currentFrame_)
  /\ \E result \in VkResults :
       /\ acquireResult' = result
       /\ IF AcquireNeedsRecreate(result)
            THEN /\ EnterRecreateSwapchain("BeginFrame")
                 /\ UNCHANGED <<inFlightFences_, imageAvailableSemaphores_,
                                currentSwapchainImageIndex_, swapchainImages,
                                beginFrameInfo>>
            ELSE IF AcquireFailed(result)
              THEN /\ pc' = "failed"
                   /\ UNCHANGED <<inFlightFences_, imageAvailableSemaphores_,
                                  currentSwapchainImageIndex_, swapchainImages,
                                  beginFrameInfo, localExtent, recreateCaller>>
              ELSE /\ \E image \in FreeImages :
                        /\ currentSwapchainImageIndex_' = image
                        /\ swapchainImages' =
                             [swapchainImages EXCEPT ![image] = "acquired"]
                   /\ imageAvailableSemaphores_' =
                        [imageAvailableSemaphores_ EXCEPT
                           ![currentFrame_] = @ + 1]
                   /\ inFlightFences_' = ResetFence(inFlightFences_, currentFrame_)
                   /\ beginFrameInfo' = FALSE
                   /\ pc' = "begin_ret"
                   /\ UNCHANGED <<localExtent, recreateCaller>>
  /\ UNCHANGED <<currentFrame_, renderFinishedSemaphores_, framebufferResized_,
                 swapchainId, swapchainExtent, swapChainImageFormat_,
                 swapchainImageViews_, swapchainFramebuffers_,
                 imageViewHandles, gpuVars,
                 winVars, engineVars, setupVars, presentResult,
                 submitResult>>

(***************************************************************************)
(* Context::EndFrame.                                                      *)
(***************************************************************************)
Submission(frame, image) ==
  [slot |-> frame, image |-> image, wait |-> WaitSemaphoreIndex(frame),
   signal |-> RenderFinishedIndex(frame, image), swapchain |-> swapchainId,
   \* options.commandBuffer: the Engine's commandBuffers_[bufferId_]
   commandBuffer |-> bufferId_]

PresentRequest(frame, image) ==
  [image |-> image, wait |-> RenderFinishedIndex(frame, image),
   swapchain |-> swapchainId]

EndFrame ==
  /\ pc = "end"
  /\ ImageAcquired
  /\ \E result \in SubmitResults :
       /\ submitResult' = result
       /\ IF result # "VK_SUCCESS"
         THEN /\ pc' = "failed"
              /\ UNCHANGED <<currentFrame_, framebufferResized_,
                             swapchainImages, gpuVars, localExtent,
                             recreateCaller, presentResult>>
         ELSE
           /\ graphicsQueue_' =
                Append(graphicsQueue_,
                       Submission(currentFrame_, currentSwapchainImageIndex_))
           /\ presentQueue_' =
                Append(presentQueue_,
                       PresentRequest(currentFrame_, currentSwapchainImageIndex_))
           /\ swapchainImages' =
                [swapchainImages EXCEPT ![currentSwapchainImageIndex_] = "queued"]
           /\ \E presented \in VkResults :
                /\ presentResult' = presented
                /\ IF PresentNeedsRecreate(presented, framebufferResized_)
                     THEN /\ framebufferResized_' = FALSE
                          /\ EnterRecreateSwapchain("EndFrame")
                          /\ currentFrame_' = currentFrame_
                     ELSE IF presented # "VK_SUCCESS"
                       THEN /\ pc' = "failed"
                            /\ UNCHANGED <<currentFrame_, framebufferResized_,
                                           localExtent, recreateCaller>>
                       ELSE /\ currentFrame_' = AdvanceFrame(currentFrame_)
                            /\ pc' = "end_ret"
                            /\ UNCHANGED <<framebufferResized_, localExtent,
                                           recreateCaller>>
  /\ UNCHANGED <<inFlightFences_, imageAvailableSemaphores_,
                 renderFinishedSemaphores_, currentSwapchainImageIndex_,
                 swapchainId, swapchainExtent, swapChainImageFormat_,
                 swapchainImageViews_, swapchainFramebuffers_,
                 imageViewHandles, winVars,
                 engineVars, setupVars, acquireResult, beginFrameInfo>>

(***************************************************************************)
(* Engine::Render around the two Context calls.                            *)
(***************************************************************************)
\* bufferId_ = (bufferId_ + 1) % render::kMaxFramesInFlight
AdvanceBufferId_Stay(id) == id
AdvanceBufferId(id) == (id + 1) % kMaxFramesInFlight

\* Context::RecordCommandBuffer on a command buffer that holds `draws`:
\* vkResetCommandBuffer, then one render pass with the draw of one object
RecordCommandBuffer(draws, object) == <<object>>

\* the draws the slot's command buffer holds after Engine::Render's loop has
\* called RecordCommandBuffer for the first n nodes of the scene
RECURSIVE RecordedDraws(_, _)
RecordedDraws(draws, n) ==
  IF n = 0
    THEN draws
    ELSE RecordCommandBuffer(RecordedDraws(draws, n - 1), n)

\* RecordCommandBuffer and UpdateUniformBuffer for the slot bufferId_, once
\* (the Engine::Render that draws one object)
RecordAndUpdate ==
  /\ commandBuffers_' =
       [commandBuffers_ EXCEPT
          ![bufferId_] = currentSwapchainImageIndex_]
  /\ uniformBufferMappedMemories_' =
       [uniformBufferMappedMemories_ EXCEPT ![bufferId_] = 1]
  /\ commandBufferDraws' =
       [commandBufferDraws EXCEPT ![bufferId_] = RecordCommandBuffer(@, 1)]
  /\ recordedInFrame' = TRUE

\* RecordCommandBuffer and UpdateUniformBuffer for the slot bufferId_, once
\* per node of the scene (the Engine::Render that loops over scenes and nodes)
RecordScene ==
  /\ commandBuffers_' =
       IF sceneNodes > 0
         THEN [commandBuffers_ EXCEPT
                 ![bufferId_] = currentSwapchainImageIndex_]
         ELSE commandBuffers_
  /\ uniformBufferMappedMemories_' =
       IF sceneNodes > 0
         THEN [uniformBufferMappedMemories_ EXCEPT ![bufferId_] = 1]
         ELSE uniformBufferMappedMemories_
  /\ commandBufferDraws' =
       [commandBufferDraws EXCEPT
          ![bufferId_] = RecordedDraws(@, sceneNodes)]
  /\ recordedInFrame' = (sceneNodes > 0)

\* the value BeginFrame returned goes out of scope
ReturnConsumed ==
  /\ acquireResult' = NoResult
  /\ beginFrameInfo' = FALSE

\* The revision of Engine::Render that tests BeginFrame's result: the
\* swapchain was recreated, skip this frame.
RenderSkipFrame ==
  /\ pc = "begin_ret"
  /\ beginFrameInfo
  /\ ReturnConsumed
  /\ pc' = "loop"
  /\ UNCHANGED <<ctxVars, swapVars, gpuVars, winVars, engineVars, setupVars,
                 localExtent, recreateCaller, presentResult, submitResult>>

RenderRecord ==
  /\ pc = "begin_ret"
  /\ ~beginFrameInfo
  /\ RecordScene
  /\ ReturnConsumed
  /\ pc' = "end"
  /\ UNCHANGED <<ctxVars, swapVars, gpuVars, winVars, bufferId_, setupVars,
                 localExtent, recreateCaller, presentResult, submitResult>>

\* EndFrame has returned: the Engine advances its buffer index.
RenderAfterEnd ==
  /\ pc = "end_ret"
  /\ bufferId_' = AdvanceBufferId(bufferId_)
  /\ presentResult' = NoResult
  /\ submitResult' = NoResult
  /\ pc' = "loop"
  /\ UNCHANGED <<ctxVars, swapVars, gpuVars, winVars, commandBuffers_,
                 uniformBufferMappedMemories_, commandBufferDraws,
                 recordedInFrame, setupVars, localExtent,
                 recreateCaller, acquireResult, beginFrameInfo>>

\* The revision of Engine::Render that discards BeginFrame's result.
RenderRecordUnchecked ==
  /\ pc = "begin_ret"
  /\ RecordAndUpdate
  /\ ReturnConsumed
  /\ pc' = "end"
  /\ UNCHANGED <<ctxVars, swapVars, gpuVars, winVars, bufferId_, setupVars,
                 localExtent, recreateCaller, presentResult, submitResult>>

\* EndFrame called although BeginFrame acquired no image: vkQueueSubmit gets
\* a signaled fence and a wait semaphore nothing signals, vkQueuePresentKHR
\* an image that was not acquired.  The program is outside valid usage from
\* here on.
EndFrameWithoutImage ==
  /\ pc = "end"
  /\ ~ImageAcquired
  /\ pc' = "undefined"
  /\ UNCHANGED <<ctxVars, swapVars, gpuVars, winVars, engineVars, setupVars,
                 localVars>>

\* RecordCommandBuffer throws, at vkBeginCommandBuffer before anything is
\* recorded or at vkEndCommandBuffer after: Render is left between BeginFrame
\* and EndFrame, and a caller that handles the error goes on to the next
\* frame.
RenderAbandonFrame ==
  /\ pc = "begin_ret"
  /\ ~beginFrameInfo
  /\ \E recorded \in BOOLEAN :
       /\ commandBuffers_' =
            IF recorded
              THEN [commandBuffers_ EXCEPT
                      ![bufferId_] = currentSwapchainImageIndex_]
              ELSE commandBuffers_
       /\ commandBufferDraws' =
            IF recorded
              THEN [commandBufferDraws EXCEPT
                      ![bufferId_] = RecordCommandBuffer(@, 1)]
              ELSE commandBufferDraws
  /\ recordedInFrame' = TRUE
  /\ ReturnConsumed
  /\ pc' = "loop"
  /\ UNCHANGED <<ctxVars, swapVars, gpuVars, winVars, bufferId_,
                 uniformBufferMappedMemories_, setupVars, localExtent,
                 recreateCaller, presentResult, submitResult>>

(***************************************************************************)
(* The swapchain from its first creation on, without frames: what          *)
(* Context::Initialize and Engine::Initialize create, and RecreateSwapchain *)
(* on an idle device.                                                      *)
(***************************************************************************)
\* Inside Context::Initialize, before CreateSwapchain: the window exists,
\* the surface is any surface, nothing of the swapchain exists.
InitUncreated ==
  /\ InitSurfaceAny
  /\ InitFrameState
  /\ InitEngineTables
  /\ InitResources
  /\ resources = CreateDeviceHandles(NoObjects)
  /\ InitSingleNodeScene
  /\ pc = "initialize"
  /\ windowExtent \in Extents \ {<<0, 0>>}
  /\ swapchainImages = FreshImages(0)
  /\ swapchainId = 1
  /\ swapchainExtent = <<0, 0>>
  /\ swapChainImageFormat_ = "VK_FORMAT_UNDEFINED"
  /\ swapchainImageViews_ = 0
  /\ imageViewHandles = 0
  /\ swapchainFramebuffers_ = 0

\* Context::Initialize: "Create default swapchain.", "Create sync objects."
InitializeCreateSwapchain ==
  /\ pc = "initialize"
  /\ CreateSwapchain
  /\ resources' = CreateSyncObjects(resources)
  /\ pc' = "engine_initialize"
  /\ UNCHANGED <<ctxVars, swapchainFramebuffers_, gpuVars, winVars,
                 engineVars, surfaceVars, textureImageLayout, textureCommands,
                 stagingBuffers, textureImages_, lastTransition,
                 textureOptions, exception, destroyed, uploadVars, sceneVars,
                 localVars>>

\* Engine::Initialize: context_.CreateSwapchainFramebuffers(renderPass_)
InitializeCreateFramebuffers ==
  /\ pc = "engine_initialize"
  /\ CreateSwapchainFramebuffers(swapchainFramebuffers_, swapchainImageViews_)
  /\ pc' = "initialized"
  /\ UNCHANGED <<ctxVars, swapchainImages, swapchainId, swapchainExtent,
                 swapChainImageFormat_, swapchainImageViews_,
                 imageViewHandles, gpuVars,
                 winVars, engineVars, setupVars, localVars>>

\* Context::RecreateSwapchain when the window is not minimised and the
\* device is idle: neither the event wait nor vkDeviceWaitIdle blocks.
RecreateSwapchainIdle ==
  /\ pc = "initialized"
  /\ ~IsMinimized(windowExtent)
  /\ DeviceIdle(graphicsQueue_, presentQueue_)
  /\ localExtent' = windowExtent
  /\ RebuildSwapchain
  /\ UNCHANGED <<pc, ctxVars, gpuVars, winVars, engineVars, setupVars,
                 recreateCaller, acquireResult, presentResult, submitResult,
                 beginFrameInfo>>

(***************************************************************************)
(* Context::CreateTextureImage and the layout transitions.  The thread     *)
(* blocks in vkQueueWaitIdle at the end of each single-time command         *)
(* buffer, so each of them is a step.                                      *)
(***************************************************************************)
\* TransitionImageLayout: the (oldLayout, newLayout) pairs that have barrier
\* masks; any other pair throws "unsupported layout transition!"
TransitionSupported_FromUndefined(oldLayout, newLayout) ==
  \/ oldLayout = "VK_IMAGE_LAYOUT_UNDEFINED"
  \/ /\ oldLayout = "VK_IMAGE_LAYOUT_TRANSFER_DST_OPTIMAL"
     /\ newLayout = "VK_IMAGE_LAYOUT_SHADER_READ_ONLY_OPTIMAL"
TransitionSupported(oldLayout, newLayout) ==
  \/ /\ oldLayout = "VK_IMAGE_LAYOUT_UNDEFINED"
     /\ newLayout = "VK_IMAGE_LAYOUT_TRANSFER_DST_OPTIMAL"
  \/ /\ oldLayout = "VK_IMAGE_LAYOUT_TRANSFER_DST_OPTIMAL"
     /\ newLayout = "VK_IMAGE_LAYOUT_SHADER_READ_ONLY_OPTIMAL"

\* the access masks and stages TransitionImageLayout gives a supported pair
TransitionBarrier(oldLayout, newLayout) ==
  IF oldLayout = "VK_IMAGE_LAYOUT_UNDEFINED"
    THEN [srcAccessMask |-> "0",
          dstAccessMask |-> "VK_ACCESS_TRANSFER_WRITE_BIT",
          sourceStage |-> "VK_PIPELINE_STAGE_TOP_OF_PIPE_BIT",
          destinationStage |-> "VK_PIPELINE_STAGE_TRANSFER_BIT"]
    ELSE [srcAccessMask |-> "VK_ACCESS_TRANSFER_WRITE_BIT",
          dstAccessMask |-> "VK_ACCESS_SHADER_READ_BIT",
          sourceStage |-> "VK_PIPELINE_STAGE_TRANSFER_BIT",
          destinationStage |-> "VK_PIPELINE_STAGE_FRAGMENT_SHADER_BIT"]

\* the layout of an image after the barrier to newLayout has executed
LayoutAfterBarrier_Unchanged(layout, newLayout) == layout
LayoutAfterBarrier(layout, newLayout) == newLayout

\* the switch on texComponents has a case for it
ComponentsSupported(components) == components \in {1, 3, 4}

\* TransitionImageLayout on the image under creation: the barrier executes
\* and the thread goes on to `next`, or the call throws.
TransitionTextureImage(oldLayout, newLayout, next) ==
  IF TransitionSupported(oldLayout, newLayout)
    THEN /\ textureCommands' =
              Append(textureCommands,
                     [command |-> "vkCmdPipelineBarrier",
                      imageLayout |-> textureImageLayout,
                      oldLayout |-> oldLayout,
                      newLayout |-> newLayout])
         /\ textureImageLayout' =
              LayoutAfterBarrier(textureImageLayout, newLayout)
         /\ pc' = next
         /\ UNCHANGED exception
    ELSE /\ pc' = "failed"
         /\ exception' = "unsupported layout transition!"
         /\ UNCHANGED <<textureCommands, textureImageLayout>>

\* CreateTextureImage up to the first single-time command buffer: the
\* staging buffer, the format switch and CreateImage.
CreateTextureImage ==
  /\ pc = "setup"
  /\ textureImages_ < MaxTextures
  /\ \E hasImageData \in BOOLEAN, texComponents \in ImageComponents :
       /\ textureOptions' =
            IF hasImageData
              THEN [called |-> TRUE, imageData |-> TRUE,
                    components |-> texComponents]
              ELSE [called |-> TRUE, imageData |-> FALSE]
       /\ IF ~hasImageData
         THEN /\ pc' = "failed"
              /\ exception' = "no image!"
              /\ UNCHANGED <<stagingBuffers, textureImageLayout,
                             textureCommands>>
         ELSE /\ stagingBuffers' = stagingBuffers + 1
              /\ IF ComponentsSupported(texComponents)
                   THEN /\ textureImageLayout' = "VK_IMAGE_LAYOUT_UNDEFINED"
                        /\ textureCommands' = <<>>
                        /\ pc' = "tex_transition_dst"
                        /\ UNCHANGED exception
                   ELSE /\ pc' = "failed"
                        /\ exception' = "unsupported image format!"
                        /\ UNCHANGED <<textureImageLayout, textureCommands>>
  /\ UNCHANGED <<ctxVars, swapVars, gpuVars, winVars, engineVars, surfaceVars,
                 textureImages_, lastTransition, tableVars, uploadVars,
                 sceneVars, localVars>>

\* "Transition the texture image to VK_IMAGE_LAYOUT_TRANSFER_DST_OPTIMAL."
TextureTransitionToTransferDst ==
  /\ pc = "tex_transition_dst"
  /\ TransitionTextureImage("VK_IMAGE_LAYOUT_UNDEFINED",
                            "VK_IMAGE_LAYOUT_TRANSFER_DST_OPTIMAL", "tex_copy")
  /\ UNCHANGED <<ctxVars, swapVars, gpuVars, winVars, engineVars, surfaceVars,
                 stagingBuffers, textureImages_, lastTransition, textureOptions, tableVars,
                 uploadVars, sceneVars, localVars>>

\* "Execute the buffer to image copy operation."
TextureCopyBufferToImage ==
  /\ pc = "tex_copy"
  /\ textureCommands' =
       Append(textureCommands,
              [command |-> "vkCmdCopyBufferToImage",
               imageLayout |-> textureImageLayout,
               oldLayout |-> "VK_IMAGE_LAYOUT_TRANSFER_DST_OPTIMAL",
               newLayout |-> "VK_IMAGE_LAYOUT_TRANSFER_DST_OPTIMAL"])
  /\ pc' = "tex_transition_read"
  /\ UNCHANGED <<ctxVars, swapVars, gpuVars, winVars, engineVars, surfaceVars,
                 textureImageLayout, stagingBuffers, textureImages_,
                 lastTransition, exception, textureOptions, tableVars, uploadVars, sceneVars,
                 localVars>>

\* "Transition to prepare the texture image for shader access.", then the
\* staging buffer is destroyed and the image is pushed to textureImages_.
TextureTransitionToShaderRead ==
  /\ pc = "tex_transition_read"
  /\ TransitionTextureImage("VK_IMAGE_LAYOUT_TRANSFER_DST_OPTIMAL",
                            "VK_IMAGE_LAYOUT_SHADER_READ_ONLY_OPTIMAL", "setup")
  /\ IF pc' = "setup"
       THEN /\ stagingBuffers' = stagingBuffers - 1
            /\ textureImages_' = textureImages_ + 1
       ELSE UNCHANGED <<stagingBuffers, textureImages_>>
  /\ UNCHANGED <<ctxVars, swapVars, gpuVars, winVars, engineVars, surfaceVars,
                 lastTransition, textureOptions, tableVars, uploadVars, sceneVars, localVars>>

\* Context::BeginSingleTimeCommands: vkAllocateCommandBuffers and
\* vkBeginCommandBuffer; `allocated` single-time command buffers exist
BeginSingleTimeCommands(allocated) == allocated + 1

\* Context::EndSingleTimeCommands: vkEndCommandBuffer, vkQueueSubmit,
\* vkQueueWaitIdle and vkFreeCommandBuffers
EndSingleTimeCommands(allocated) == allocated - 1

\* TransitionImageLayout called with any pair of layouts: it begins a
\* single-time command buffer, then records the barrier and ends the
\* command buffer, or throws.
TransitionImageLayout ==
  /\ pc = "setup"
  /\ oneTimeCommandBuffers < MaxRejectedTransitions
  /\ \E oldLayout \in VkImageLayouts, newLayout \in VkImageLayouts :
       IF TransitionSupported(oldLayout, newLayout)
         THEN /\ lastTransition' =
                   [called |-> TRUE, oldLayout |-> oldLayout,
                    newLayout |-> newLayout, thrown |-> FALSE,
                    barrier |-> TransitionBarrier(oldLayout, newLayout)]
              /\ oneTimeCommandBuffers' =
                   EndSingleTimeCommands(
                     BeginSingleTimeCommands(oneTimeCommandBuffers))
         ELSE /\ lastTransition' =
                   [called |-> TRUE, oldLayout |-> oldLayout,
                    newLayout |-> newLayout, thrown |-> TRUE]
              /\ oneTimeCommandBuffers' =
                   BeginSingleTimeCommands(oneTimeCommandBuffers)
  /\ UNCHANGED <<pc, ctxVars, swapVars, gpuVars, winVars, engineVars,
                 surfaceVars, textureImageLayout, textureCommands,
                 stagingBuffers, textureImages_, exception, textureOptions,
                 tableVars, uploadOptions, stagingMemory, deviceLocalMemory,
                 uploadCommands, sceneVars, localVars>>

(***************************************************************************)
(* Context::CreateVertexBuffer and Context::CreateIndexBuffer: the staged  *)
(* upload of static data.  The thread blocks in vkQueueWaitIdle inside     *)
(* CopyBuffer; the copy executes on the graphics queue meanwhile.          *)
(***************************************************************************)
\* std::memcpy(dst, src, n)
Memcpy(dst, src, n) ==
  [i \in 1 .. Len(dst) |-> IF i <= n THEN src[i] ELSE dst[i]]

\* vkCmdCopyBuffer with one region {srcOffset 0, dstOffset 0, size}
CopyBufferRegion_OneShort(dst, src, size) ==
  [i \in 1 .. Len(dst) |-> IF i <= size - 1 THEN src[i] ELSE dst[i]]
CopyBufferRegion(dst, src, size) ==
  [i \in 1 .. Len(dst) |-> IF i <= size THEN src[i] ELSE dst[i]]

\* vkQueueWaitIdle(graphicsQueue_) returns
QueueWaitIdle_NoWait(queue) == TRUE
QueueWaitIdle(queue) == queue = <<>>

\* the bytes of memory that vkAllocateMemory returned and nothing has
\* written: any
UninitializedMemory(size) == [1 .. size -> Bytes]

\* the vectors CreateVertexBuffer / CreateIndexBuffer push the buffer and
\* its memory onto
StaticBufferTables(kind) ==
  IF kind = "vertex"
    THEN {"vertexBuffers_", "vertexBufferMemories_"}
    ELSE {"indexBuffers_", "indexBufferMemories_"}

\* push_back of one handle onto each of the tables
PushBack(objects, tables) ==
  [k \in ResourceKinds |-> IF k \in tables THEN objects[k] + 1 ELSE objects[k]]

StaticBuffers ==
  resources["vertexBuffers_"] + resources["indexBuffers_"]

\* CreateVertexBuffer / CreateIndexBuffer up to vkQueueWaitIdle: the staging
\* buffer is created and filled, the device-local buffer is created, and the
\* copy is recorded into a single-time command buffer and submitted.
CreateStaticBuffer ==
  /\ pc = "setup"
  /\ StaticBuffers < MaxStaticBuffers
  /\ \E kind \in {"vertex", "index"}, bufferData \in BufferData :
     \E bufferSize \in 1 .. Len(bufferData) :
       /\ uploadOptions' = [called |-> TRUE, kind |-> kind,
                            bufferData |-> bufferData,
                            bufferSize |-> bufferSize, returned |-> FALSE]
       /\ \/ \* CreateBuffer of the staging buffer throws
             /\ \E error \in CreateBufferErrors :
                  /\ exception' = error
                  /\ stagingBuffers' =
                       IF error = "failed to allocate buffer memory!"
                         THEN stagingBuffers + 1
                         ELSE stagingBuffers
             /\ pc' = "failed"
             /\ uploadCommands' = <<>>
             /\ UNCHANGED <<stagingMemory, deviceLocalMemory,
                            oneTimeCommandBuffers, graphicsQueue_>>
          \/ \* CreateBuffer of the device-local buffer throws
             /\ \E error \in CreateBufferErrors, garbage \in
                    UninitializedMemory(bufferSize) :
                  /\ exception' = error
                  /\ stagingMemory' = Memcpy(garbage, bufferData, bufferSize)
             /\ stagingBuffers' = stagingBuffers + 1
             /\ pc' = "failed"
             /\ uploadCommands' = <<>>
             /\ UNCHANGED <<deviceLocalMemory, oneTimeCommandBuffers,
                            graphicsQueue_>>
          \/ /\ \E garbage \in UninitializedMemory(bufferSize) :
                  stagingMemory' = Memcpy(garbage, bufferData, bufferSize)
             /\ stagingBuffers' = stagingBuffers + 1
             /\ deviceLocalMemory' \in UninitializedMemory(bufferSize)
             /\ oneTimeCommandBuffers' = oneTimeCommandBuffers + 1
             /\ graphicsQueue_' =
                  Append(graphicsQueue_,
                         [command |-> "vkCmdCopyBuffer", size |-> bufferSize])
             /\ uploadCommands' = <<"vkCmdCopyBuffer", "vkQueueSubmit">>
             /\ pc' = "buf_wait_idle"
             /\ UNCHANGED exception
  /\ UNCHANGED <<ctxVars, swapVars, presentQueue_, winVars, engineVars,
                 surfaceVars, textureImageLayout, textureCommands,
                 textureImages_, lastTransition, textureOptions, tableVars,
                 sceneVars, localVars>>

\* The graphics queue executes the copy.  A source buffer that has been
\* destroyed is read as whatever its memory holds by then.
GpuExecuteCopy ==
  /\ graphicsQueue_ # <<>>
  /\ Head(graphicsQueue_).command = "vkCmdCopyBuffer"
  /\ \E source \in (IF stagingMemory # <<>>
                      THEN {stagingMemory}
                      ELSE UninitializedMemory(Len(deviceLocalMemory))) :
       deviceLocalMemory' =
         CopyBufferRegion(deviceLocalMemory, source, Head(graphicsQueue_).size)
  /\ graphicsQueue_' = Tail(graphicsQueue_)
  /\ uploadCommands' = Append(uploadCommands, "copy executed")
  /\ UNCHANGED <<pc, ctxVars, swapVars, presentQueue_, winVars, engineVars,
                 surfaceVars, textureImageLayout, textureCommands,
                 stagingBuffers, textureImages_, lastTransition,
                 textureOptions, exception, tableVars, uploadOptions,
                 stagingMemory, oneTimeCommandBuffers, sceneVars, localVars>>

\* vkQueueWaitIdle returns: the single-time command buffer is freed, the
\* staging buffer destroyed and its memory freed, and the buffer and its
\* memory are pushed onto the Context's vectors.
StaticBufferCopyDone ==
  /\ pc = "buf_wait_idle"
  /\ QueueWaitIdle(graphicsQueue_)
  /\ oneTimeCommandBuffers' = oneTimeCommandBuffers - 1
  /\ stagingBuffers' = stagingBuffers - 1
  /\ stagingMemory' = <<>>
  /\ uploadCommands' =
       uploadCommands \o
         <<"vkFreeCommandBuffers", "vkDestroyBuffer", "vkFreeMemory">>
  /\ resources' = PushBack(resources, StaticBufferTables(uploadOptions.kind))
  /\ uploadOptions' = [uploadOptions EXCEPT !.returned = TRUE]
  /\ pc' = "setup"
  /\ UNCHANGED <<ctxVars, swapVars, gpuVars, winVars, engineVars, surfaceVars,
                 textureImageLayout, textureCommands, textureImages_,
                 lastTransition, textureOptions, exception, destroyed,
                 deviceLocalMemory, sceneVars, localVars>>

(***************************************************************************)
(* The Context from construction to teardown: Context::Initialize, the     *)
(* Create* operations of the application's setup, and                      *)
(* Engine::Deinitialize (WaitIdle, then Context::Cleanup).                  *)
(***************************************************************************)
\* what Context::Initialize can throw before the swapchain, with the handles
\* that exist by then
InitializeFailures ==
  {[error |-> "failed to create instance:", created |-> {"window_"}],
   [error |-> "failed to create window surface!",
    created |-> {"window_", "instance_"}],
   [error |-> "failed to select physical device: ",
    created |-> {"window_", "instance_", "surface_"}],
   [error |-> "failed to create device: ",
    created |-> {"window_", "instance_", "surface_"}],
   [error |-> "failed to get graphics queue: ", created |-> DeviceHandles],
   [error |-> "failed to get present queue: ", created |-> DeviceHandles]}

\* The Create* operations that track what they create: the table the
\* returned handle is pushed onto, every table pushed onto, and what the
\* operation throws when the Vulkan call fails.
CreateOperations ==
  {[operation |-> "CreateImageView", handle |-> "imageViews_",
    tables |-> {"imageViews_"}, error |-> "failed to create image view!"],
   [operation |-> "CreateShaderModule", handle |-> "shaderModules_",
    tables |-> {"shaderModules_"},
    error |-> "failed to create shader module!"],
   [operation |-> "CreateRenderPass", handle |-> "renderPasses_",
    tables |-> {"renderPasses_"}, error |-> "failed to create render pass!"],
   [operation |-> "CreateFramebuffer", handle |-> "framebuffers_",
    tables |-> {"framebuffers_"}, error |-> "failed to create framebuffer!"],
   [operation |-> "CreateDescriptorSetLayout",
    handle |-> "descriptorSetLayouts_", tables |-> {"descriptorSetLayouts_"},
    error |-> "failed to create descriptor set layout!"],
   [operation |-> "CreatePipelineLayout", handle |-> "pipelineLayouts_",
    tables |-> {"pipelineLayouts_"},
    error |-> "failed to create pipeline layout!"],
   [operation |-> "CreateGraphicsPipeline", handle |-> "pipelines_",
    tables |-> {"pipelines_"},
    error |-> "failed to create graphics pipeline!"],
   [operation |-> "CreateCommandPool", handle |-> "commandPools_",
    tables |-> {"commandPools_"}, error |-> "failed to create command pool!"],
   [operation |-> "CreateVertexBuffer", handle |-> "vertexBuffers_",
    tables |-> {"vertexBuffers_", "vertexBufferMemories_"},
    error |-> "failed to create buffer!"],
   [operation |-> "CreateIndexBuffer", handle |-> "indexBuffers_",
    tables |-> {"indexBuffers_", "indexBufferMemories_"},
    error |-> "failed to create buffer!"],
   [operation |-> "CreateUniformBuffer", handle |-> "uniformBuffers_",
    tables |-> {"uniformBuffers_", "uniformBufferMemories_"},
    error |-> "failed to create buffer!"],
   [operation |-> "CreateDescriptorPool", handle |-> "descriptorPools_",
    tables |-> {"descriptorPools_"},
    error |-> "failed to create descriptor pool!"],
   [operation |-> "CreateTextureImage", handle |-> "textureImages_",
    tables |-> {"textureImages_", "textureImageMemories_"},
    error |-> "failed to create image!"],
   [operation |-> "CreateTextureSampler", handle |-> "samplers_",
    tables |-> {"samplers_"}, error |-> "failed to create texture sampler!"]}

\* the number of live objects of a table or handle of the Context
LiveCount(kind) ==
  IF kind \in ResourceKinds THEN resources[kind]
  ELSE IF kind \in {"textureImages_", "textureImageMemories_"}
    THEN textureImages_
  ELSE IF kind = "swapchainFramebuffers_" THEN swapchainFramebuffers_
  ELSE IF kind = "swapchainImageViews_" THEN swapchainImageViews_
  ELSE IF kind = "swapchain_"
    THEN (IF DOMAIN swapchainImages = {} THEN 0 ELSE 1)
  ELSE 0

RECURSIVE LiveTotal(_)
\* the number of live objects of a set of tables
LiveTotal(kinds) ==
  IF kinds = {} THEN 0
  ELSE LET k == CHOOSE x \in kinds : TRUE
       IN  LiveCount(k) + LiveTotal(kinds \ {k})

\* the handles the Create* operations have returned
CreatedResources == LiveTotal({op.handle : op \in CreateOperations})

\* What Context::CleanupSwapchain releases, in its order.  Each entry is the
\* tables one loop walks: the objects at the same index are released
\* together.
CleanupSwapchainOrder_AndFramebuffers ==
  << <<"swapchainFramebuffers_">>, <<"framebuffers_">>,
     <<"swapchainImageViews_">>, <<"swapchain_">> >>
CleanupSwapchainOrder_AndSurface ==
  << <<"swapchainFramebuffers_">>, <<"swapchainImageViews_">>,
     <<"swapchain_">>, <<"surface_">> >>
CleanupSwapchainOrder ==
  << <<"swapchainFramebuffers_">>, <<"swapchainImageViews_">>,
     <<"swapchain_">> >>

\* What Context::Cleanup releases after CleanupSwapchain, in its order.
CleanupOrder_PoolsBeforeSyncObjects ==
  << <<"samplers_">>, <<"textureImages_">>, <<"textureImageMemories_">>,
     <<"uniformBuffers_">>, <<"uniformBufferMemories_">>,
     <<"descriptorPools_">>, <<"descriptorSetLayouts_">>, <<"pipelines_">>,
     <<"pipelineLayouts_">>, <<"framebuffers_">>, <<"renderPasses_">>,
     <<"shaderModules_">>, <<"imageViews_">>, <<"commandPools_">>,
     <<"imageAvailableSemaphores_", "renderFinishedSemaphores_",
       "inFlightFences_">>,
     <<"vertexBuffers_">>, <<"vertexBufferMemories_">>, <<"indexBuffers_">>,
     <<"indexBufferMemories_">>, <<"device_">>, <<"surface_">>,
     <<"instance_">>, <<"window_">> >>
CleanupOrder_DeviceBeforeIndexBuffers ==
  << <<"samplers_">>, <<"textureImages_">>, <<"textureImageMemories_">>,
     <<"uniformBuffers_">>, <<"uniformBufferMemories_">>,
     <<"descriptorPools_">>, <<"descriptorSetLayouts_">>, <<"pipelines_">>,
     <<"pipelineLayouts_">>, <<"framebuffers_">>, <<"renderPasses_">>,
     <<"shaderModules_">>, <<"imageViews_">>,
     <<"imageAvailableSemaphores_", "renderFinishedSemaphores_",
       "inFlightFences_">>,
     <<"commandPools_">>, <<"vertexBuffers_">>, <<"vertexBufferMemories_">>,
     <<"device_">>, <<"indexBuffers_">>, <<"indexBufferMemories_">>,
     <<"surface_">>, <<"instance_">>, <<"window_">> >>
CleanupOrder ==
  << <<"samplers_">>, <<"textureImages_">>, <<"textureImageMemories_">>,
     <<"uniformBuffers_">>, <<"uniformBufferMemories_">>,
     <<"descriptorPools_">>, <<"descriptorSetLayouts_">>, <<"pipelines_">>,
     <<"pipelineLayouts_">>, <<"framebuffers_">>, <<"renderPasses_">>,
     <<"shaderModules_">>, <<"imageViews_">>,
     <<"imageAvailableSemaphores_", "renderFinishedSemaphores_",
       "inFlightFences_">>,
     <<"commandPools_">>, <<"vertexBuffers_">>, <<"vertexBufferMemories_">>,
     <<"indexBuffers_">>, <<"indexBufferMemories_">>, <<"device_">>,
     <<"surface_">>, <<"instance_">>, <<"window_">> >>

RECURSIVE LoopLog(_, _)
\* one loop of Cleanup over `count` indices of the tables of an entry
LoopLog(tables, count) ==
  IF count = 0 THEN <<>> ELSE tables \o LoopLog(tables, count - 1)

RECURSIVE ReleaseLog(_)
\* the tables of the objects released by the loops of `order`, in order
ReleaseLog(order) ==
  IF order = <<>> THEN <<>>
  ELSE LoopLog(Head(order), LiveCount(Head(order)[1]))
         \o ReleaseLog(Tail(order))

\* the tables that the loops of `order` empty
Released(order) == UNION {Range(order[i]) : i \in DOMAIN order}

\* the loops of `order` run: every object of their tables is destroyed
Release(order) ==
  /\ destroyed' = destroyed \o ReleaseLog(order)
  /\ resources' =
       [k \in ResourceKinds |->
          IF k \in Released(order) THEN 0 ELSE resources[k]]
  /\ textureImages_' =
       IF {"textureImages_", "textureImageMemories_"} \cap Released(order) # {}
         THEN 0 ELSE textureImages_
  /\ swapchainFramebuffers_' =
       IF "swapchainFramebuffers_" \in Released(order)
         THEN 0 ELSE swapchainFramebuffers_
  /\ swapchainImageViews_' =
       IF "swapchainImageViews_" \in Released(order)
         THEN 0 ELSE swapchainImageViews_
  \* destroy_image_views takes the vector by const reference
  /\ imageViewHandles' = imageViewHandles
  /\ swapchainImages' =
       IF "swapchain_" \in Released(order)
         THEN FreshImages(0) ELSE swapchainImages

\* Before Context::Initialize: nothing exists.  The surface asks for one
\* image at least and sets no limit.
InitStart ==
  /\ InitSurface
  /\ surfaceMinImages = 1
  /\ surfaceMaxImages = 0
  /\ InitFrameState
  /\ InitEngineTables
  /\ InitResources
  /\ resources = NoObjects
  /\ InitSingleNodeScene
  /\ pc = "start"
  /\ windowExtent = <<800, 600>>
  /\ swapchainImages = FreshImages(0)
  /\ swapchainId = 1
  /\ swapchainExtent = <<0, 0>>
  /\ swapChainImageFormat_ = "VK_FORMAT_UNDEFINED"
  /\ swapchainImageViews_ = 0
  /\ imageViewHandles = 0
  /\ swapchainFramebuffers_ = 0

\* Context::Initialize up to the queues: InitWindow, the instance, the
\* window surface, the physical and the logical device, the queues.
InitializeCreateDevice ==
  /\ pc = "start"
  /\ \/ /\ resources' = CreateDeviceHandles(resources)
        /\ pc' = "initialize"
        /\ UNCHANGED exception
     \/ \E failure \in InitializeFailures :
          /\ resources' = PushBack(resources, failure.created)
          /\ exception' = failure.error
          /\ pc' = "failed"
  /\ UNCHANGED <<ctxVars, swapVars, gpuVars, winVars, engineVars, surfaceVars,
                 textureImageLayout, textureCommands, stagingBuffers,
                 textureImages_, lastTransition, textureOptions, destroyed,
                 uploadVars, sceneVars, localVars>>

\* A Create* operation of the application's setup runs to its return or
\* throws.
CreateResource ==
  /\ pc = "initialized"
  /\ CreatedResources < MaxCreatedResources
  /\ \E op \in CreateOperations :
       \/ /\ resources' = PushBack(resources, op.tables)
          /\ textureImages_' =
               IF "textureImages_" \in op.tables
                 THEN textureImages_ + 1 ELSE textureImages_
          /\ UNCHANGED <<pc, exception>>
       \/ /\ exception' = op.error
          /\ pc' = "failed"
          /\ UNCHANGED <<resources, textureImages_>>
  /\ UNCHANGED <<ctxVars, swapVars, gpuVars, winVars, engineVars, surfaceVars,
                 textureImageLayout, textureCommands, stagingBuffers,
                 lastTransition, textureOptions, destroyed, uploadVars,
                 sceneVars, localVars>>

\* Engine::Deinitialize, after Initialize or when the main loop has ended
\* between two frames: context_.WaitIdle() returns
DeinitializeWaitIdle ==
  /\ pc \in {"initialized", "loop"}
  /\ DeviceIdle(graphicsQueue_, presentQueue_)
  /\ pc' = "deinitialize"
  /\ UNCHANGED <<ctxVars, swapVars, gpuVars, winVars, engineVars, setupVars,
                 localVars>>

\* Context::Cleanup: "Swapchain.", the call of CleanupSwapchain
CleanupSwapchain ==
  /\ pc = "deinitialize"
  /\ Release(CleanupSwapchainOrder)
  /\ pc' = "cleanup"
  /\ UNCHANGED <<ctxVars, swapchainId, swapchainExtent, swapChainImageFormat_,
                 gpuVars, winVars, engineVars, surfaceVars,
                 textureImageLayout, textureCommands, stagingBuffers,
                 lastTransition, textureOptions, exception, uploadVars,
                 sceneVars, localVars>>

\* Context::Cleanup after CleanupSwapchain, to its end
CleanupTables ==
  /\ pc = "cleanup"
  /\ Release(CleanupOrder)
  /\ pc' = "cleaned"
  /\ UNCHANGED <<ctxVars, swapchainId, swapchainExtent, swapChainImageFormat_,
                 gpuVars, winVars, engineVars, surfaceVars,
                 textureImageLayout, textureCommands, stagingBuffers,
                 lastTransition, textureOptions, exception, uploadVars,
                 sceneVars, localVars>>

(***************************************************************************)
(* The Engine's Add* operations and its component and resource tables.     *)
(***************************************************************************)
\* The Add* operations of the Engine that has programs: the table each adds
\* to, the ids it looks up (in order, with what it throws when one is
\* missing), whether it reads a file, the Context operations it calls (in
\* order; AddProgram also allocates its descriptor sets from the pool it
\* created), and whether the component is stored before the resources are
\* created.  Here every operation stores at its end.
AddOperations ==
  {[operation |-> "AddVertexShader", table |-> "vertexShaders",
    finds |-> <<>>, file |-> TRUE, creates |-> <<"CreateShaderModule">>,
    resource |-> TRUE, insertsFirst |-> FALSE],
   [operation |-> "AddFragmentShader", table |-> "fragmentShaders",
    finds |-> <<>>, file |-> TRUE, creates |-> <<"CreateShaderModule">>,
    resource |-> TRUE, insertsFirst |-> FALSE],
   [operation |-> "AddProgram", table |-> "programs",
    finds |-> <<[kind |-> "vertexShaders",
                 error |-> "failed to find the vertex shader!"],
                [kind |-> "fragmentShaders",
                 error |-> "failed to find the fragment shader!"]>>,
    file |-> FALSE,
    creates |-> <<"CreateDescriptorSetLayout", "CreatePipelineLayout",
                  "CreateGraphicsPipeline", "CreateDescriptorPool">>
                \o [i \in 1 .. kMaxFramesInFlight |-> "CreateUniformBuffer"],
    resource |-> TRUE, insertsFirst |-> FALSE],
   [operation |-> "AddMesh", table |-> "meshes",
    finds |-> <<>>, file |-> FALSE,
    creates |-> <<"CreateVertexBuffer", "CreateIndexBuffer">>
                \o [i \in 1 .. kMaxFramesInFlight |-> "CreateUniformBuffer"],
    resource |-> TRUE, insertsFirst |-> FALSE],
   [operation |-> "AddTexture", table |-> "textures",
    finds |-> <<>>, file |-> FALSE,
    creates |-> <<"CreateTextureImage", "CreateImageView",
                  "CreateTextureSampler">>,
    resource |-> TRUE, insertsFirst |-> FALSE],
   [operation |-> "AddMaterial", table |-> "materials",
    finds |-> <<[kind |-> "textures",
                 error |-> "failed to find the texture!"]>>,
    file |-> FALSE, creates |-> <<>>,
    resource |-> FALSE, insertsFirst |-> FALSE],
   [operation |-> "AddSurface", table |-> "surfaces",
    finds |-> <<[kind |-> "programs",
                 error |-> "failed to find the program!"],
                [kind |-> "meshes", error |-> "failed to find the mesh!"],
                [kind |-> "materials",
                 error |-> "failed to find the material!"]>>,
    file |-> FALSE, creates |-> <<>>,
    resource |-> FALSE, insertsFirst |-> FALSE],
   [operation |-> "AddNode", table |-> "nodes",
    finds |-> <<[kind |-> "surfaces",
                 error |-> "failed to find the surface!"]>>,
    file |-> FALSE, creates |-> <<>>,
    resource |-> FALSE, insertsFirst |-> FALSE]}

\* The Add* operations of the Engine whose meshes own the uniform buffers:
\* components_.X[id] is assigned before the file is read and before the
\* Context objects are created; resources_.X[id] at the end.
EarlierAddOperations ==
  {[operation |-> "AddVertexShader", table |-> "vertexShaders",
    finds |-> <<>>, file |-> TRUE, creates |-> <<"CreateShaderModule">>,
    resource |-> TRUE, insertsFirst |-> TRUE],
   [operation |-> "AddMesh", table |-> "meshes",
    finds |-> <<[kind |-> "vertexShaders",
                 error |-> "failed to find the vertex shader!"]>>,
    file |-> FALSE,
    creates |-> <<"CreateVertexBuffer", "CreateIndexBuffer">>
                \o [i \in 1 .. kMaxFramesInFlight |-> "CreateUniformBuffer"],
    resource |-> TRUE, insertsFirst |-> TRUE],
   [operation |-> "AddFragmentShader", table |-> "fragmentShaders",
    finds |-> <<>>, file |-> TRUE, creates |-> <<"CreateShaderModule">>,
    resource |-> TRUE, insertsFirst |-> TRUE],
   [operation |-> "AddTexture", table |-> "textures",
    finds |-> <<>>, file |-> FALSE,
    creates |-> <<"CreateTextureImage", "CreateImageView",
                  "CreateTextureSampler">>,
    resource |-> TRUE, insertsFirst |-> TRUE],
   [operation |-> "AddMaterial", table |-> "materials",
    finds |-> <<[kind |-> "fragmentShaders",
                 error |-> "failed to find the fragment shader!"],
                [kind |-> "textures",
                 error |-> "failed to find the texture!"]>>,
    file |-> FALSE, creates |-> <<>>,
    resource |-> FALSE, insertsFirst |-> TRUE]}

\* Context::CreateUniformBuffer called `count` times: each call pushes one
\* mapped memory onto uniformBufferMappedMemories_, whose indices start at 0
CreateUniformBuffers(mapped, count) ==
  [i \in 0 .. (Cardinality(DOMAIN mapped) + count - 1) |->
     IF i \in DOMAIN mapped THEN mapped[i] ELSE 0]

\* One Add* call of the Engine, to its return or to its throw.  `refs` are
\* the ids the caller passes, `readable` says whether ReadFile can open the
\* file and `done` how many of the Context operations succeed.
AddComponent(operations) ==
  /\ pc = "setup"
  /\ addCalls < MaxAddCalls
  /\ addCalls' = addCalls + 1
  /\ \E op \in operations :
     \E refs \in [1 .. Len(op.finds) -> 0 .. MaxComponentId] :
     \E readable \in BOOLEAN :
     \E done \in 0 .. Len(op.creates) :
       LET missing == {i \in 1 .. Len(op.finds) :
                         refs[i] >= Len(components_[op.finds[i].kind])}
           id == Len(components_[op.table])
           inserted == [components_ EXCEPT ![op.table] = Append(@, refs)]
           calls == {i \in 1 .. done : TRUE}
           tablesOf(i) ==
             (CHOOSE c \in CreateOperations :
                c.operation = op.creates[i]).tables
           uniforms(n) ==
             Cardinality({i \in 1 .. n : op.creates[i] = "CreateUniformBuffer"})
           first == Cardinality(DOMAIN uniformBufferMappedMemories_)
       IN
         IF missing # {}
           THEN /\ lastAdd' =
                     [operation |-> op.operation, thrown |-> TRUE,
                      error |-> op.finds[CHOOSE i \in missing :
                                           \A j \in missing : i <= j].error]
                /\ UNCHANGED <<components_, resources_, resources,
                               textureImages_, uniformBufferMappedMemories_>>
         ELSE IF op.file /\ ~readable
           THEN /\ lastAdd' =
                     [operation |-> op.operation, thrown |-> TRUE,
                      error |-> "failed to open file!"]
                /\ components_' =
                     IF op.insertsFirst THEN inserted ELSE components_
                /\ UNCHANGED <<resources_, resources, textureImages_,
                               uniformBufferMappedMemories_>>
         ELSE /\ resources' =
                   [k \in ResourceKinds |->
                      resources[k]
                        + Cardinality({i \in calls : k \in tablesOf(i)})]
              /\ textureImages_' =
                   textureImages_
                     + Cardinality({i \in calls :
                                      "textureImages_" \in tablesOf(i)})
              /\ uniformBufferMappedMemories_' =
                   CreateUniformBuffers(uniformBufferMappedMemories_,
                                        uniforms(done))
              /\ IF done < Len(op.creates)
                   THEN /\ lastAdd' =
                             [operation |-> op.operation, thrown |-> TRUE,
                              error |->
                                (CHOOSE c \in CreateOperations :
                                   c.operation = op.creates[done + 1]).error]
                        /\ components_' =
                             IF op.insertsFirst THEN inserted ELSE components_
                        /\ UNCHANGED resources_
                   ELSE /\ lastAdd' =
                             [operation |-> op.operation, thrown |-> FALSE,
                              id |-> id]
                        /\ components_' = inserted
                        /\ resources_' =
                             IF op.resource
                               THEN [resources_ EXCEPT
                                       ![op.table] =
                                         Append(@, [i \in 1 .. uniforms(done)
                                                      |-> first + i - 1])]
                               ELSE resources_
  /\ UNCHANGED <<pc, ctxVars, swapVars, gpuVars, winVars, bufferId_,
                 commandBuffers_, commandBufferDraws, recordedInFrame,
                 surfaceVars, textureImageLayout, textureCommands,
                 stagingBuffers, lastTransition, textureOptions, exception,
                 destroyed, uploadVars, sceneNodes, localVars>>

RECURSIVE SetupTables(_)
\* uniformBufferMappedMemories_ and resources_.programs after a setup that
\* makes these AddMesh and AddProgram calls, in this order, all successful
SetupTables(calls) ==
  IF calls = <<>>
    THEN [mapped |-> [i \in {} |-> 0], programs |-> <<>>]
    ELSE LET before == SetupTables(SubSeq(calls, 1, Len(calls) - 1))
             first == Cardinality(DOMAIN before.mapped)
         IN  [mapped |->
                CreateUniformBuffers(before.mapped, kMaxFramesInFlight),
              programs |->
                IF calls[Len(calls)] = "AddProgram"
                  THEN Append(before.programs,
                              [i \in 1 .. kMaxFramesInFlight |->
                                 first + i - 1])
                  ELSE before.programs]

(***************************************************************************)
(* Specifications.                                                         *)
(***************************************************************************)
Environment ==
  \/ GpuRetire
  \/ PresentExecute
  \/ WindowResize
  \/ WindowInput

ContextSteps ==
  \/ MainLoopPoll
  \/ BeginFrame
  \/ RecreateWaitEvents
  \/ RecreateFinish
  \/ EndFrame
  \/ RenderAfterEnd

Next ==
  \/ Environment
  \/ ContextSteps
  \/ RenderSkipFrame
  \/ RenderRecord

Spec == Init /\ [][Next]_vars

\* The same Context driven by the Engine::Render that ignores BeginFrame's
\* result.
NextUnchecked ==
  \/ Environment
  \/ ContextSteps
  \/ RenderRecordUnchecked
  \/ EndFrameWithoutImage

SpecUnchecked == Init /\ [][NextUnchecked]_vars

\* The Context driven by a caller that may leave a frame after BeginFrame
\* without calling EndFrame.
NextAbandoned ==
  \/ Environment
  \/ ContextSteps
  \/ RenderSkipFrame
  \/ RenderRecord
  \/ RenderAbandonFrame

SpecAbandoned == Init /\ [][NextAbandoned]_vars

\* The swapchain lifecycle on any surface.
NextSwapchain ==
  \/ InitializeCreateSwapchain
  \/ InitializeCreateFramebuffers
  \/ RecreateSwapchainIdle
  \/ WindowResize

SpecSwapchain == InitUncreated /\ [][NextSwapchain]_vars

\* The application's setup, before the frame loop: an initialized Context
\* creates textures.
InitSetup ==
  /\ InitSurface
  /\ InitFrameState
  /\ InitEngineTables
  /\ InitResources
  /\ InitContextObjects
  /\ InitSingleNodeScene
  /\ InitSwapchainReady
  /\ pc = "setup"

NextTexture ==
  \/ CreateTextureImage
  \/ TextureTransitionToTransferDst
  \/ TextureCopyBufferToImage
  \/ TextureTransitionToShaderRead
  \/ TransitionImageLayout

SpecTexture == InitSetup /\ [][NextTexture]_vars

\* The application's setup creates vertex and index buffers.
NextUpload ==
  \/ CreateStaticBuffer
  \/ GpuExecuteCopy
  \/ StaticBufferCopyDone

SpecUpload == InitSetup /\ [][NextUpload]_vars

\* The Context from construction to teardown.
NextLifecycle ==
  \/ InitializeCreateDevice
  \/ InitializeCreateSwapchain
  \/ InitializeCreateFramebuffers
  \/ CreateResource
  \/ RecreateSwapchainIdle
  \/ DeinitializeWaitIdle
  \/ CleanupSwapchain
  \/ CleanupTables

SpecLifecycle == InitStart /\ [][NextLifecycle]_vars

\* The frame loop of the Engine::Render that loops over the nodes of its
\* scenes, for scenes of every size, the empty one included.  The surface
\* asks for one image at least and sets no limit.
InitScene ==
  /\ InitSurface
  /\ surfaceMinImages = 1
  /\ surfaceMaxImages = 0
  /\ InitFrameState
  /\ InitEngineTables
  /\ InitResources
  /\ InitContextObjects
  /\ sceneNodes \in 0 .. MaxSceneNodes
  /\ InitSwapchainReady
  /\ pc = "loop"

SpecScene == InitScene /\ [][Next]_vars

\* The frame loop of the demos on a surface that asks for two images at
\* least and sets no limit (the swapchain then has three), with a GPU that
\* completes what is submitted to it, a presentation engine that executes
\* what is queued, and a thread that runs whenever the call it is in does
\* not block.
InitLive ==
  /\ Init
  /\ surfaceMinImages = 2
  /\ surfaceMaxImages = 0

SpecLive ==
  /\ InitLive
  /\ [][Next]_vars
  /\ WF_vars(GpuRetire)
  /\ WF_vars(PresentExecute)
  /\ WF_vars(BeginFrame)
  /\ WF_vars(RecreateFinish)

\* An initialized Engine before its first Add* call.
InitComponents ==
  /\ InitSurface
  /\ surfaceMinImages = 1
  /\ surfaceMaxImages = 0
  /\ InitFrameState
  /\ InitResources
  /\ InitContextObjects
  /\ InitSwapchainReady
  /\ pc = "setup"
  /\ sceneNodes = 0
  /\ uniformBufferMappedMemories_ = [i \in {} |-> 0]
  /\ components_ = [k \in ComponentKinds |-> <<>>]
  /\ resources_ = [k \in ComponentKinds |-> <<>>]
  /\ lastAdd = [operation |-> "none", thrown |-> FALSE, id |-> 0]
  /\ addCalls = 0

\* The setup of an application on the Engine that has programs, the calls
\* that throw included: the caller catches and goes on.
SpecComponents == InitComponents /\ [][AddComponent(AddOperations)]_vars

\* The same on the Engine whose Add* operations store the component first.
SpecEarlierComponents ==
  InitComponents /\ [][AddComponent(EarlierAddOperations)]_vars

\* The frame loop after a setup that registered meshes and programs in any
\* order and a node that draws a surface of one of the programs.
InitPrograms ==
  /\ InitSurface
  /\ surfaceMinImages = 1
  /\ surfaceMaxImages = 0
  /\ InitFrameState
  /\ InitResources
  /\ InitContextObjects
  /\ InitSingleNodeScene
  /\ InitSwapchainReady
  /\ pc = "loop"
  /\ lastAdd = [operation |-> "AddNode", thrown |-> FALSE, id |-> 0]
  /\ addCalls = 0
  /\ \E n \in 2 .. MaxSetupCalls :
     \E calls \in [1 .. n -> {"AddMesh", "AddProgram"}] :
       /\ "AddMesh" \in Range(calls)
       /\ "AddProgram" \in Range(calls)
       /\ uniformBufferMappedMemories_ = SetupTables(calls).mapped
       /\ \E program \in 0 .. (Len(SetupTables(calls).programs) - 1) :
            /\ components_ =
                 [k \in ComponentKinds |->
                    IF k = "programs"
                      THEN [i \in 1 .. Len(SetupTables(calls).programs)
                              |-> <<0, 0>>]
                    ELSE IF k = "meshes"
                      THEN [i \in 1 .. Cardinality({j \in 1 .. n :
                                                      calls[j] = "AddMesh"})
                              |-> <<>>]
                    ELSE IF k = "materials" THEN << <<0>> >>
                    ELSE IF k = "surfaces" THEN << <<program, 0, 0>> >>
                    ELSE IF k = "nodes" THEN << <<0>> >>
                    ELSE << <<>> >>]
            /\ resources_ =
                 [k \in ComponentKinds |->
                    IF k = "programs" THEN SetupTables(calls).programs
                    ELSE IF k = "meshes"
                      THEN [i \in 1 .. Cardinality({j \in 1 .. n :
                                                      calls[j] = "AddMesh"})
                              |-> <<>>]
                    ELSE IF k \in {"vertexShaders", "fragmentShaders",
                                   "textures"}
                      THEN << <<>> >>
                    ELSE <<>>]

SpecPrograms == InitPrograms /\ [][Next]_vars

\* The frame loop followed by the teardown of the demos: the window is
\* closed between two frames and main calls Engine::Deinitialize.
NextTeardown ==
  \/ Next
  \/ DeinitializeWaitIdle
  \/ CleanupSwapchain
  \/ CleanupTables

InitTeardown ==
  /\ Init
  /\ surfaceMinImages = 1
  /\ surfaceMaxImages = 0

SpecTeardown == InitTeardown /\ [][NextTeardown]_vars

TypeOK ==
  /\ pc \in {"loop", "begin", "begin_ret", "end", "end_ret", "rc_wait_events",
             "rc_idle", "failed", "undefined", "initialize",
             "engine_initialize", "initialized", "setup",
             "tex_transition_dst", "tex_copy", "tex_transition_read",
             "buf_wait_idle", "start", "deinitialize", "cleanup",
             "cleaned"}
  /\ currentFrame_ \in Slots
  /\ bufferId_ \in Slots
  /\ inFlightFences_ \in [Slots -> BOOLEAN]
  /\ \A i \in Slots : imageAvailableSemaphores_[i] \in 0 .. 4
  /\ \A i \in DOMAIN renderFinishedSemaphores_ :
       renderFinishedSemaphores_[i] \in 0 .. 2
  /\ \A i \in DOMAIN swapchainImages :
       swapchainImages[i] \in {"free", "acquired", "queued"}
  /\ windowExtent \in Extents
  /\ pendingEvent \in {"none", "input", "resize"}

(***************************************************************************)
(* Properties.                                                             *)
(***************************************************************************)
RecreatePcs == {"rc_wait_events", "rc_idle"}

\* the positions in graphicsQueue_ of the submissions made for slot i
SubmissionsOfSlot(i) ==
  {k \in 1 .. Len(graphicsQueue_) : graphicsQueue_[k].slot = i}

\* the positions in presentQueue_ of the presents waiting on semaphore idx
PresentsWaitingOn(idx) ==
  {k \in 1 .. Len(presentQueue_) : presentQueue_[k].wait = idx}

AcquiredImages ==
  {i \in DOMAIN swapchainImages : swapchainImages[i] = "acquired"}

\* C1: at every instant at most one submission per frame slot is submitted
\* and not yet retired, so at most kMaxFramesInFlight are outstanding.
C1_AtMostOnePendingPerSlot ==
  /\ \A i \in Slots : Cardinality(SubmissionsOfSlot(i)) <= 1
  /\ Len(graphicsQueue_) <= kMaxFramesInFlight

\* both slots have a submission in flight
C1_Witness ==
  /\ Len(graphicsQueue_) = kMaxFramesInFlight
  /\ \A i \in Slots : Cardinality(SubmissionsOfSlot(i)) = 1

\* C2: BeginFrame leaves its fence wait only when the slot's fence is
\* signaled and the slot's previous submission has retired; while the fence
\* is unsignaled it acquires no image and stays in the wait.
C2_BeginFrameBlocksOnFence ==
  [][ /\ (pc = "begin" /\ pc' # "begin") =>
            /\ inFlightFences_[currentFrame_]
            /\ SubmissionsOfSlot(currentFrame_) = {}
      /\ (pc = "begin" /\ ~inFlightFences_[currentFrame_]) =>
            /\ pc' = "begin"
            /\ AcquiredImages' = AcquiredImages
            /\ currentSwapchainImageIndex_' = currentSwapchainImageIndex_
            /\ imageAvailableSemaphores_'[currentFrame_]
                 <= imageAvailableSemaphores_[currentFrame_] ]_vars

\* BeginFrame is blocked on a reused slot whose submission is still pending
C2_Witness ==
  /\ pc = "begin"
  /\ ~inFlightFences_[currentFrame_]
  /\ SubmissionsOfSlot(currentFrame_) # {}

\* C3: renderFinishedSemaphores_ has one entry per swapchain image and the
\* entry a submission signals, and its present waits on, is the one of the
\* acquired image.
C3_RenderFinishedPerImage ==
  /\ Cardinality(DOMAIN renderFinishedSemaphores_)
       = Cardinality(DOMAIN swapchainImages)
  /\ \A k \in 1 .. Len(graphicsQueue_) :
       graphicsQueue_[k].signal = graphicsQueue_[k].image
  /\ \A k \in 1 .. Len(presentQueue_) :
       presentQueue_[k].wait = presentQueue_[k].image

\* C4: no "render finished" semaphore is handed to a new submission and its
\* present while an earlier present still waits on it.
C4_NoSharedRenderFinished ==
  \A idx \in DOMAIN renderFinishedSemaphores_ :
    Cardinality(PresentsWaitingOn(idx)) <= 1

\* C5: the swapchain is destroyed only when the device is idle, so no
\* submission or present that is still pending refers to a destroyed
\* swapchain.
C5_NoPendingWorkOnDestroyedSwapchain ==
  /\ \A k \in 1 .. Len(graphicsQueue_) :
       graphicsQueue_[k].swapchain = swapchainId
  /\ \A k \in 1 .. Len(presentQueue_) :
       presentQueue_[k].swapchain = swapchainId

\* after one rebuild, a second rebuild is blocked in vkDeviceWaitIdle while
\* work submitted on the rebuilt swapchain is outstanding
C5_Witness ==
  /\ swapchainId = 1
  /\ pc = "rc_idle"
  /\ graphicsQueue_ # <<>>

\* C6: BeginFrame enters RecreateSwapchain exactly when the acquisition
\* returns VK_ERROR_OUT_OF_DATE_KHR, it then returns ifSwapchainRecreated
\* set (and clear otherwise), and that result never ends in the throw.
C6_BeginFrameStaleSurface ==
  /\ [](/\ (pc = "begin_ret" =>
              (beginFrameInfo <=> acquireResult = "VK_ERROR_OUT_OF_DATE_KHR"))
        /\ (acquireResult = "VK_ERROR_OUT_OF_DATE_KHR" => pc # "failed"))
  /\ [][ (pc = "begin" /\ pc' # "begin") =>
           ((pc' \in RecreatePcs /\ recreateCaller' = "BeginFrame")
              <=> acquireResult' = "VK_ERROR_OUT_OF_DATE_KHR") ]_vars

\* BeginFrame has returned from the stale-surface path
C6_Witness ==
  /\ pc = "begin_ret"
  /\ beginFrameInfo
  /\ acquireResult = "VK_ERROR_OUT_OF_DATE_KHR"
  /\ swapchainId = 1

\* C7: when BeginFrame has reported a recreated swapchain, Render returns
\* to the main loop without recording, writing a uniform buffer or
\* submitting.
C7_SkippedFrameDoesNothing ==
  [][ (pc = "begin_ret" /\ beginFrameInfo /\ pc' # pc) =>
        /\ pc' = "loop"
        /\ UNCHANGED <<commandBuffers_, uniformBufferMappedMemories_,
                       graphicsQueue_, presentQueue_>> ]_vars

\* C8: EndFrame enters RecreateSwapchain exactly when vkQueuePresentKHR
\* returns out-of-date or suboptimal or framebufferResized_ is set; the flag
\* is cleared on that path.
C8_EndFrameRebuildCondition ==
  [][ (pc = "end" /\ pc' # "end" /\ presentResult' # NoResult) =>
        /\ (pc' \in RecreatePcs /\ recreateCaller' = "EndFrame")
             <=> \/ presentResult' = "VK_ERROR_OUT_OF_DATE_KHR"
                 \/ presentResult' = "VK_SUBOPTIMAL_KHR"
                 \/ framebufferResized_
        /\ pc' \in RecreatePcs => ~framebufferResized_' ]_vars

\* EndFrame rebuilds on a suboptimal present with no resize reported
C8_Witness ==
  /\ pc \in RecreatePcs
  /\ recreateCaller = "EndFrame"
  /\ presentResult = "VK_SUBOPTIMAL_KHR"
  /\ ~framebufferResized_
  /\ pendingEvent = "none"

\* C9: currentFrame_ stays in 0..K-1, changes only when EndFrame returns,
\* and then from i to (i + 1) mod K, with or without a rebuild.
C9_FrameIndexAdvances ==
  /\ [](currentFrame_ \in Slots)
  /\ [][ /\ (pc' = "end_ret" /\ pc # "end_ret") =>
              currentFrame_' = IF currentFrame_ = kMaxFramesInFlight - 1
                                 THEN 0 ELSE currentFrame_ + 1
         /\ ~(pc' = "end_ret" /\ pc # "end_ret") =>
              currentFrame_' = currentFrame_ ]_vars

\* EndFrame has returned after a rebuild and wrapped the index from 1 to 0
C9_Witness ==
  /\ pc = "end_ret"
  /\ presentResult = "VK_ERROR_OUT_OF_DATE_KHR"
  /\ currentFrame_ = 0
  /\ bufferId_ = 1

\* C10: no "image available" semaphore has more than one acquisition
\* outstanding; from a successful BeginFrame to EndFrame exactly one image
\* is acquired, on the current slot's semaphore, and none between frames.
C10_OneAcquirePerSlot ==
  /\ \A i \in Slots : imageAvailableSemaphores_[i] <= 1
  /\ ((pc = "begin_ret" /\ ~beginFrameInfo) \/ pc = "end") =>
       /\ AcquiredImages = {currentSwapchainImageIndex_}
       /\ imageAvailableSemaphores_[currentFrame_] = 1
  /\ (pc \in {"loop", "begin", "end_ret"} \cup RecreatePcs) =>
       AcquiredImages = {}

\* an image is acquired for this slot while the other slot's submission,
\* with its own acquisition not yet consumed, is still pending
C10_Witness ==
  /\ pc = "end"
  /\ \A i \in Slots : imageAvailableSemaphores_[i] = 1
  /\ Len(graphicsQueue_) = 1

\* C11: a vkQueueSubmit or vkQueuePresentKHR failure that is not a stale
\* surface ends EndFrame in the throw: no swapchain rebuild is entered, the
\* swapchain is left alone, and nothing runs after the failure.
C11_FailureIsFatal ==
  [][ /\ (/\ pc = "end"
          /\ pc' # "end"
          /\ \/ submitResult' = "VK_ERROR_DEVICE_LOST"
             \/ presentResult' = "VK_ERROR_DEVICE_LOST")
        => /\ pc' = "failed"
           /\ pc' \notin RecreatePcs
           /\ swapchainId' = swapchainId
      /\ pc = "failed" => pc' = "failed" ]_vars

\* the current slot's fence is unsignaled and no submission that would
\* signal it is queued, while the thread is at or before BeginFrame's wait
AbandonedSlot ==
  /\ pc \in {"loop", "begin"}
  /\ ~inFlightFences_[currentFrame_]
  /\ SubmissionsOfSlot(currentFrame_) = {}

\* C12: when a frame is left after BeginFrame acquired an image and reset
\* the slot's fence, without EndFrame, the slot's fence stays unsignaled with
\* no submission to signal it: the next BeginFrame on that slot never leaves
\* its fence wait and acquires nothing.
C12_AbandonedCycleBlocksSlot ==
  [][ /\ (pc = "begin_ret" /\ ImageAcquired /\ pc' = "loop") => AbandonedSlot'
      /\ AbandonedSlot =>
           /\ AbandonedSlot'
           /\ currentFrame_' = currentFrame_
           /\ AcquiredImages' = AcquiredImages ]_vars

\* the next BeginFrame waits on the abandoned slot's fence with every queue
\* drained
C12_Witness ==
  /\ AbandonedSlot
  /\ pc = "begin"
  /\ AcquiredImages # {}
  /\ graphicsQueue_ = <<>>
  /\ presentQueue_ = <<>>

\* the submissions not yet retired whose command buffer is the Engine's
\* commandBuffers_[i] (and that read uniform buffer i)
SubmissionsUsingBuffer(i) ==
  {k \in 1 .. Len(graphicsQueue_) : graphicsQueue_[k].commandBuffer = i}

\* C13: the command buffer and the uniform buffer of a slot are written only
\* by Render's recording step, only for the slot bufferId_, and only when no
\* submission that uses that slot's buffers is still in flight: the slot's
\* fence was waited by BeginFrame before.
C13_NoWriteToInFlightSlot ==
  [][ /\ (pc = "begin_ret" /\ pc' = "end") =>
           /\ SubmissionsUsingBuffer(bufferId_) = {}
           /\ SubmissionsOfSlot(bufferId_) = {}
           /\ \A i \in Slots \ {bufferId_} :
                /\ commandBuffers_'[i] = commandBuffers_[i]
                /\ uniformBufferMappedMemories_'[i]
                     = uniformBufferMappedMemories_[i]
      /\ ~(pc = "begin_ret" /\ pc' = "end") =>
           UNCHANGED <<commandBuffers_, uniformBufferMappedMemories_>> ]_vars

\* a slot's buffers have been rewritten for a new frame while the other
\* slot's frame is still in flight
C13_Witness ==
  /\ pc = "end"
  /\ \A i \in Slots : uniformBufferMappedMemories_[i] = 1
  /\ SubmissionsUsingBuffer(1 - bufferId_) # {}
  /\ SubmissionsUsingBuffer(bufferId_) = {}

\* C14: a rebuild triggered while the framebuffer is 0x0 destroys and
\* creates nothing as long as it is 0x0: the thread leaves the minimisation
\* wait only when the framebuffer is not 0x0, the swapchain is untouched
\* during the wait and is replaced only while the framebuffer is not 0x0,
\* and the new swapchain has the restored extent.
C14_NoRebuildWhileMinimized ==
  [][ /\ pc = "rc_wait_events" =>
           /\ UNCHANGED <<swapchainId, swapchainExtent, swapchainImageViews_,
                          swapchainFramebuffers_>>
           /\ pc' # "rc_wait_events" => ~IsMinimized(windowExtent)
      /\ swapchainId' # swapchainId =>
           /\ ~IsMinimized(windowExtent)
           /\ swapchainExtent' = windowExtent ]_vars

\* a swapchain exists
SwapchainCreated == pc \in {"engine_initialize", "initialized"}

\* C15: the swapchain, first created or rebuilt, has min + 1 images, or max
\* images when the surface has a limit below min + 1; the count is never
\* below min nor above a limit the surface reports.
C15_ImageCountMinPlusOne ==
  SwapchainCreated =>
    LET n == Cardinality(DOMAIN swapchainImages) IN
      /\ IF surfaceMaxImages > 0 /\ surfaceMinImages + 1 > surfaceMaxImages
           THEN n = surfaceMaxImages
           ELSE n = surfaceMinImages + 1
      /\ surfaceMinImages <= n
      /\ surfaceMaxImages > 0 => n <= surfaceMaxImages

\* a rebuilt swapchain on a surface with min/max 2/4 has 3 images
C15_Witness ==
  /\ pc = "initialized"
  /\ swapchainId = 1
  /\ surfaceMinImages = 2
  /\ surfaceMaxImages = 4
  /\ Cardinality(DOMAIN swapchainImages) = 3

\* r is v brought into lo .. hi
IsClamped(r, v, lo, hi) ==
  /\ lo <= r /\ r <= hi
  /\ (lo <= v /\ v <= hi) => r = v
  /\ v < lo => r = lo
  /\ v > hi => r = hi

\* the extent is the framebuffer size clamped to the limits the surface
\* reports for that framebuffer
IsClampedExtent(extent, framebufferSize) ==
  LET capabilities == SurfaceCapabilities(framebufferSize) IN
    /\ IsClamped(extent[1], framebufferSize[1],
                 capabilities.minImageExtent[1], capabilities.maxImageExtent[1])
    /\ IsClamped(extent[2], framebufferSize[2],
                 capabilities.minImageExtent[2], capabilities.maxImageExtent[2])

\* C16 as stated: a created or rebuilt swapchain has the framebuffer size
\* clamped to the surface's min/max extent, except that on a surface
\* reporting the "any size" value it has the framebuffer size unclamped.
C16_ExtentUnclampedWhenAnySize ==
  [][ swapchainId' # swapchainId =>
        IF surfaceReportsExtent
          THEN IsClampedExtent(swapchainExtent', windowExtent)
          ELSE swapchainExtent' = windowExtent ]_vars

\* C16, amended: a created or rebuilt swapchain has the framebuffer size
\* clamped to the surface's min/max extent, also on a surface reporting the
\* "any size" value; a surface that reports its size gives that size.
C16_ExtentClampedWhenAnySize ==
  [][ swapchainId' # swapchainId =>
        /\ IsClampedExtent(swapchainExtent', windowExtent)
        /\ surfaceReportsExtent => swapchainExtent' = windowExtent ]_vars

\* on an "any size" surface with a 720x720 limit the swapchain rebuilt for
\* an 800x600 framebuffer is 720x600
C16_Witness ==
  /\ pc = "initialized"
  /\ swapchainId = 1
  /\ ~surfaceReportsExtent
  /\ surfaceMaxExtent = <<720, 720>>
  /\ windowExtent = <<800, 600>>
  /\ swapchainExtent = <<720, 600>>

C18_ImageCountFixedBetweenRebuilds ==
  /\ [](/\ Cardinality(DOMAIN swapchainImages) <= surfaceMinImages + 1
        /\ swapchainImageViews_ = Cardinality(DOMAIN swapchainImages)
        /\ swapchainFramebuffers_ = Cardinality(DOMAIN swapchainImages))
  /\ [][ /\ swapchainId' = swapchainId =>
              /\ DOMAIN swapchainImages' = DOMAIN swapchainImages
              /\ swapchainImageViews_' = swapchainImageViews_
              /\ swapchainFramebuffers_' = swapchainFramebuffers_
         /\ swapchainId' # swapchainId => pc = "rc_idle" ]_vars

\* a frame is under way on a rebuilt swapchain of three images, with an
\* earlier frame on it still in flight
C18_Witness ==
  /\ swapchainId = 1
  /\ pc = "end"
  /\ graphicsQueue_ # <<>>
  /\ Cardinality(DOMAIN swapchainImages) = 3
  /\ swapchainImageViews_ = 3
  /\ swapchainFramebuffers_ = 3

\* C19: TransitionImageLayout records a barrier only for
\* Undefined -> TransferDst and TransferDst -> ShaderReadOnly; for every
\* other pair of layouts, Undefined -> ShaderReadOnly among them, it throws.
C19_OnlyTwoTransitions ==
  lastTransition.called =>
    /\ ~lastTransition.thrown <=>
         \/ <<lastTransition.oldLayout, lastTransition.newLayout>>
              = <<"VK_IMAGE_LAYOUT_UNDEFINED",
                  "VK_IMAGE_LAYOUT_TRANSFER_DST_OPTIMAL">>
         \/ <<lastTransition.oldLayout, lastTransition.newLayout>>
              = <<"VK_IMAGE_LAYOUT_TRANSFER_DST_OPTIMAL",
                  "VK_IMAGE_LAYOUT_SHADER_READ_ONLY_OPTIMAL">>
    /\ (/\ lastTransition.oldLayout = "VK_IMAGE_LAYOUT_UNDEFINED"
        /\ lastTransition.newLayout = "VK_IMAGE_LAYOUT_SHADER_READ_ONLY_OPTIMAL")
         => lastTransition.thrown

\* Undefined -> ShaderReadOnly has been requested and has thrown
C19_Witness ==
  /\ lastTransition.called
  /\ lastTransition.oldLayout = "VK_IMAGE_LAYOUT_UNDEFINED"
  /\ lastTransition.newLayout = "VK_IMAGE_LAYOUT_SHADER_READ_ONLY_OPTIMAL"
  /\ lastTransition.thrown

\* the commands CreateTextureImage executes on the image, with the layout
\* the image is in when each of them executes
TextureCommandOrder ==
  <<[command |-> "vkCmdPipelineBarrier",
     imageLayout |-> "VK_IMAGE_LAYOUT_UNDEFINED",
     oldLayout |-> "VK_IMAGE_LAYOUT_UNDEFINED",
     newLayout |-> "VK_IMAGE_LAYOUT_TRANSFER_DST_OPTIMAL"],
    [command |-> "vkCmdCopyBufferToImage",
     imageLayout |-> "VK_IMAGE_LAYOUT_TRANSFER_DST_OPTIMAL",
     oldLayout |-> "VK_IMAGE_LAYOUT_TRANSFER_DST_OPTIMAL",
     newLayout |-> "VK_IMAGE_LAYOUT_TRANSFER_DST_OPTIMAL"],
    [command |-> "vkCmdPipelineBarrier",
     imageLayout |-> "VK_IMAGE_LAYOUT_TRANSFER_DST_OPTIMAL",
     oldLayout |-> "VK_IMAGE_LAYOUT_TRANSFER_DST_OPTIMAL",
     newLayout |-> "VK_IMAGE_LAYOUT_SHADER_READ_ONLY_OPTIMAL"]>>

\* C20: CreateTextureImage executes the transition Undefined -> TransferDst,
\* then the copy, then the transition TransferDst -> ShaderReadOnly, in that
\* order; the copy executes only on an image in TransferDst layout; an image
\* pushed to textureImages_ is in ShaderReadOnly layout.
C20_TextureTransitionOrder ==
  /\ Len(textureCommands) <= 3
  /\ \A k \in 1 .. Len(textureCommands) :
       /\ textureCommands[k] = TextureCommandOrder[k]
       /\ textureCommands[k].command = "vkCmdCopyBufferToImage" =>
            textureCommands[k].imageLayout
              = "VK_IMAGE_LAYOUT_TRANSFER_DST_OPTIMAL"
  /\ (pc = "setup" /\ textureImages_ > 0) =>
       /\ textureCommands = TextureCommandOrder
       /\ textureImageLayout = "VK_IMAGE_LAYOUT_SHADER_READ_ONLY_OPTIMAL"
  /\ pc = "tex_copy" =>
       textureImageLayout = "VK_IMAGE_LAYOUT_TRANSFER_DST_OPTIMAL"

\* a second texture has been created after the first
C20_Witness ==
  /\ pc = "setup"
  /\ textureImages_ = 2
  /\ stagingBuffers = 0
  /\ Len(textureCommands) = 3
  /\ textureImageLayout = "VK_IMAGE_LAYOUT_SHADER_READ_ONLY_OPTIMAL"

StaticBufferReturned ==
  /\ pc = "setup"
  /\ uploadOptions.called
  /\ uploadOptions.returned

\* C22: in a vertex or index buffer creation the staging buffer is freed
\* only after the staging-to-destination copy has been submitted and the
\* graphics queue has become idle (the copy has executed), and when the call
\* has returned no staging buffer and no single-time command buffer is left
\* allocated.
C22_StagingFreedAfterCopy ==
  /\ [][ stagingBuffers' < stagingBuffers =>
           /\ "vkQueueSubmit" \in Range(uploadCommands)
           /\ "copy executed" \in Range(uploadCommands)
           /\ graphicsQueue_ = <<>> ]_vars
  /\ [](StaticBufferReturned =>
          /\ stagingBuffers = 0
          /\ stagingMemory = <<>>
          /\ oneTimeCommandBuffers = 0)

\* a creation has returned after its copy executed and its staging buffer
\* was destroyed
C22_Witness ==
  /\ StaticBufferReturned
  /\ uploadCommands =
       <<"vkCmdCopyBuffer", "vkQueueSubmit", "copy executed",
         "vkFreeCommandBuffers", "vkDestroyBuffer", "vkFreeMemory">>
  /\ StaticBuffers = MaxStaticBuffers

\* C23: after CreateVertexBuffer or CreateIndexBuffer has returned, the
\* device-local buffer holds bufferSize bytes, each equal to the byte of the
\* input data at the same offset.
C23_StaticBufferHoldsInput ==
  StaticBufferReturned =>
    /\ Len(deviceLocalMemory) = uploadOptions.bufferSize
    /\ \A i \in 1 .. uploadOptions.bufferSize :
         deviceLocalMemory[i] = uploadOptions.bufferData[i]

\* a buffer of the largest size whose input bytes differ has been created,
\* of each kind
C23_Witness ==
  /\ StaticBufferReturned
  /\ uploadOptions.bufferSize = MaxBufferSize
  /\ \E i, j \in 1 .. uploadOptions.bufferSize :
       uploadOptions.bufferData[i] # uploadOptions.bufferData[j]
  /\ resources["vertexBuffers_"] >= 1
  /\ resources["indexBuffers_"] >= 1


(***************************************************************************)
(* Teardown.                                                               *)
(***************************************************************************)
\* the place of a table in a chain of table groups, 0 when it is in none
ChainPosition(chain, kind) ==
  IF \E i \in DOMAIN chain : kind \in chain[i]
    THEN CHOOSE i \in DOMAIN chain : kind \in chain[i]
    ELSE 0

\* the objects Cleanup released follow the chain, first group first
ReleasedAlong(chain) ==
  LET position == [i \in DOMAIN destroyed |->
                     ChainPosition(chain, destroyed[i])]
  IN  \A i, j \in DOMAIN destroyed :
        (i < j /\ position[i] # 0 /\ position[j] # 0)
          => position[i] <= position[j]

\* how many objects of a table Cleanup has released
ReleasedCount(kind) ==
  Cardinality({i \in DOMAIN destroyed : destroyed[i] = kind})

\* no object of any table or handle of the Context is left
AllReleased ==
  \A kind \in ResourceKinds \cup
      {"textureImages_", "textureImageMemories_", "swapchainFramebuffers_",
       "swapchainImageViews_", "swapchain_"} :
    LiveCount(kind) = 0

\* texture images -> uniform buffers -> descriptor pools -> pipelines ->
\* pipeline layouts -> shader modules -> synchronization objects ->
\* command pools -> vertex and index buffers -> device
TeardownChain ==
  << {"textureImages_"}, {"uniformBuffers_"}, {"descriptorPools_"},
     {"pipelines_"}, {"pipelineLayouts_"}, {"shaderModules_"},
     SyncObjectTables, {"commandPools_"},
     {"vertexBuffers_", "indexBuffers_"}, {"device_"} >>

\* C24 as claimed: teardown releases all tracked resources kind by kind in
\* the reverse order of the dependency chain descriptor pools -> pipelines
\* -> pipeline layouts -> shader modules -> images -> buffers -> command
\* pools -> synchronization objects -> device (read as the chain walked from
\* either end).
C24_TeardownFollowsDependencyChain ==
  LET chain ==
        << {"descriptorPools_"}, {"pipelines_"}, {"pipelineLayouts_"},
           {"shaderModules_"}, {"textureImages_"},
           {"uniformBuffers_", "vertexBuffers_", "indexBuffers_"},
           {"commandPools_"}, SyncObjectTables, {"device_"} >>
      reversed == [i \in DOMAIN chain |-> chain[Len(chain) + 1 - i]]
  IN  pc = "cleaned" =>
        /\ AllReleased
        /\ ReleasedAlong(chain) \/ ReleasedAlong(reversed)

\* C24 amended: teardown releases every tracked resource, kind by kind, in
\* the fixed order texture images, uniform buffers, descriptor pools,
\* pipelines, pipeline layouts, shader modules, synchronization objects,
\* command pools, vertex and index buffers, device.
C24_TeardownOrder ==
  /\ [](pc = "cleaned" => AllReleased /\ ReleasedAlong(TeardownChain))
  /\ [][ (pc = "cleanup" /\ pc' = "cleaned") =>
           \A kind \in ResourceKinds \cup {"textureImages_"} :
             ReleasedCount(kind)' = LiveCount(kind) ]_vars

C24_Witness ==
  /\ pc = "cleaned"
  /\ ReleasedCount("textureImages_") = 1
  /\ ReleasedCount("descriptorPools_") = 1
  /\ ReleasedCount("commandPools_") = 1
  /\ ReleasedCount("vertexBuffers_") = 1
  /\ ReleasedCount("inFlightFences_") = kMaxFramesInFlight
  /\ ReleasedCount("device_") = 1


\* the place of the logical device among the objects Cleanup released, 0 if
\* it has not been destroyed
DevicePosition ==
  IF \E i \in DOMAIN destroyed : destroyed[i] = "device_"
    THEN CHOOSE i \in DOMAIN destroyed : destroyed[i] = "device_"
    ELSE 0

\* C25 as claimed: the logical device is destroyed last: every device-owned
\* object has been destroyed by then and nothing the Context owns is
\* destroyed after it.
C25_DeviceDestroyedLast ==
  pc = "cleaned" =>
    /\ DevicePosition = Len(destroyed)
    /\ AllReleased

\* C25 amended: when the logical device is destroyed every device-owned
\* object has already been destroyed, and only the surface, the instance and
\* the window are destroyed after it.
C25_DeviceDestroyedAfterItsObjects ==
  /\ [](pc = "cleaned" =>
          /\ DevicePosition # 0
          /\ \A i \in DOMAIN destroyed :
               /\ i < DevicePosition => destroyed[i] \notin DeviceHandles
               /\ i > DevicePosition =>
                    destroyed[i] \in {"surface_", "instance_", "window_"})
  \* the step that destroys the device leaves no object created from it
  /\ [][ resources["device_"]' < resources["device_"] =>
           /\ \A kind \in SyncObjectTables \cup TrackedTables \cup
                  {"textureImages_", "textureImageMemories_",
                   "swapchainFramebuffers_", "swapchainImageViews_",
                   "swapchain_"} :
                LiveCount(kind)' = 0
           /\ stagingBuffers' = 0
           /\ oneTimeCommandBuffers' = 0 ]_vars

C25_Witness ==
  /\ pc = "cleaned"
  /\ ReleasedCount("indexBuffers_") = 1
  /\ ReleasedCount("pipelines_") = 1
  /\ ReleasedCount("swapchain_") = 1
  /\ DevicePosition = Len(destroyed) - 3
  /\ destroyed[Len(destroyed)] = "window_"


\* C26: destroying the swapchain destroys the swapchain framebuffers, the
\* swapchain image views and the swapchain object and nothing else: the
\* device, the surface, the synchronization objects, the frame-slot index
\* and every other resource table are as before, in teardown and in a
\* rebuild.
C26_CleanupSwapchainDestroysOnlySwapchain ==
  /\ [][ (pc = "deinitialize" /\ pc' = "cleanup") =>
           /\ destroyed' =
                destroyed
                  \o [i \in 1 .. swapchainFramebuffers_ |->
                        "swapchainFramebuffers_"]
                  \o [i \in 1 .. swapchainImageViews_ |->
                        "swapchainImageViews_"]
                  \o <<"swapchain_">>
           /\ swapchainFramebuffers_' = 0
           /\ swapchainImageViews_' = 0
           /\ LiveCount("swapchain_")' = 0
           /\ resources' = resources
           /\ textureImages_' = textureImages_
           /\ UNCHANGED ctxVars ]_vars
  /\ [][ (pc = "initialized" /\ swapchainId' # swapchainId) =>
           /\ resources' = resources
           /\ textureImages_' = textureImages_
           /\ UNCHANGED <<ctxVars, destroyed>> ]_vars

C26_Witness ==
  /\ pc = "cleanup"
  /\ destroyed = <<"swapchainFramebuffers_", "swapchainFramebuffers_",
                   "swapchainImageViews_", "swapchainImageViews_",
                   "swapchain_">>
  /\ resources["framebuffers_"] = 1
  /\ resources["imageViews_"] = 1
  /\ resources["device_"] = 1
  /\ resources["surface_"] = 1
  /\ resources["inFlightFences_"] = kMaxFramesInFlight
  /\ swapchainId = 1


\* C27 as claimed: the Context never creates or destroys the native
\* presentation surface.
C27_SurfaceNeverCreatedOrDestroyed ==
  [][resources["surface_"]' = resources["surface_"]]_vars

\* C27 amended: the Context creates the surface once, in Initialize, and
\* destroys it once, in teardown after the logical device; every operation
\* in between, swapchain creation, rebuild and destruction included, leaves
\* it in place.
C27_SurfaceCreatedAndDestroyedByContext ==
  /\ [][ resources["surface_"]' # resources["surface_"] =>
           \/ /\ pc = "start"
              /\ resources["surface_"] = 0
              /\ resources["surface_"]' = 1
           \/ /\ pc = "cleanup"
              /\ pc' = "cleaned"
              /\ resources["surface_"] = 1
              /\ resources["surface_"]' = 0
              /\ ReleasedCount("surface_")' = 1
              /\ \E i \in DOMAIN destroyed' :
                   /\ destroyed'[i] = "surface_"
                   /\ i > DevicePosition' /\ DevicePosition' # 0 ]_vars
  /\ [](pc \in {"initialize", "engine_initialize", "initialized",
                "deinitialize", "cleanup"} => resources["surface_"] = 1)

C27_Witness ==
  /\ pc = "cleaned"
  /\ ReleasedCount("surface_") = 1
  /\ resources["surface_"] = 0
  /\ swapchainId = 1


\* C28: when Render has called RecordCommandBuffer once per node of the
\* scene, the command buffer EndFrame submits holds the draw of every node.
C28_FrameContainsAllDraws ==
  (pc = "end" /\ ImageAcquired) =>
    Range(commandBufferDraws[bufferId_]) = 1 .. sceneNodes

\* C30: the command buffer EndFrame submits was recorded after the
\* BeginFrame of the same cycle, its render pass targets the framebuffer of
\* the image acquired in that cycle, and that index is within the
\* swapchain's framebuffers; the empty scene included.
C30_SubmittedBufferRecordedThisCycle ==
  pc = "end" =>
    /\ ImageAcquired
    /\ recordedInFrame
    /\ commandBuffers_[bufferId_] = currentSwapchainImageIndex_
    /\ currentSwapchainImageIndex_ < swapchainFramebuffers_


\* C29: the format of a swapchain, first created or rebuilt, is
\* B8G8R8A8_SRGB with the sRGB non-linear colour space whenever the surface
\* lists that pair anywhere, and the first listed format otherwise.
C29_PreferredFormatElseFirst ==
  LET preferred == [format |-> "VK_FORMAT_B8G8R8A8_SRGB",
                    colorSpace |-> "VK_COLOR_SPACE_SRGB_NONLINEAR_KHR"]
      expected == IF \E k \in DOMAIN surfaceFormats :
                       surfaceFormats[k] = preferred
                    THEN preferred
                    ELSE surfaceFormats[1]
  IN  SwapchainCreated =>
        /\ ChooseSwapSurfaceFormat(surfaceFormats) = expected
        /\ swapChainImageFormat_ = expected.format

C29_Witness ==
  /\ SwapchainCreated
  /\ swapchainId = 1
  /\ Len(surfaceFormats) = 2
  /\ surfaceFormats[1].format = "VK_FORMAT_B8G8R8A8_UNORM"
  /\ surfaceFormats[2] = [format |-> "VK_FORMAT_B8G8R8A8_SRGB",
                          colorSpace |-> "VK_COLOR_SPACE_SRGB_NONLINEAR_KHR"]
  /\ swapChainImageFormat_ = "VK_FORMAT_B8G8R8A8_SRGB"


\* C31: when the acquisition in BeginFrame reports a stale surface, the
\* slot's fence is left signaled and currentFrame_ unchanged, through the
\* rebuild and the skipped frame, so that the next BeginFrame waits on the
\* same slot's fence and finds it signaled.
C31_StalePathKeepsFenceAndSlot ==
  /\ []((\/ pc \in RecreatePcs /\ recreateCaller = "BeginFrame"
         \/ pc = "begin_ret" /\ beginFrameInfo)
          => inFlightFences_[currentFrame_])
  /\ [][ /\ (pc = "begin" /\ pc' \in RecreatePcs) =>
              /\ inFlightFences_' = inFlightFences_
              /\ currentFrame_' = currentFrame_
         /\ (\/ pc \in RecreatePcs /\ recreateCaller = "BeginFrame"
             \/ pc = "begin_ret" /\ beginFrameInfo) =>
              /\ currentFrame_' = currentFrame_
              /\ inFlightFences_'[currentFrame_]
         /\ (pc = "loop" /\ inFlightFences_[currentFrame_]) =>
              FenceWait(inFlightFences_', currentFrame_') ]_vars

\* BeginFrame has returned from the stale-surface path on the second slot,
\* whose fence is signaled
C31_Witness ==
  /\ pc = "begin_ret"
  /\ beginFrameInfo
  /\ currentFrame_ = 1
  /\ inFlightFences_[1]
  /\ swapchainId = 1


C33_RestoredRebuildNeedsNoFurtherEvent ==
  (pc = "rc_wait_events" /\ ~IsMinimized(windowExtent)) =>
    pendingEvent # "none"

\* C34: a resize reported by FramebufferResizeCallback is not lost: the flag
\* framebufferResized_ goes from set to clear only in an EndFrame that enters
\* RecreateSwapchain, an EndFrame that starts with the flag set goes into the
\* rebuild whatever vkQueuePresentKHR returned, and so no frame completes
\* without a rebuild while a reported resize is outstanding.
C34_ResizeNeverLost ==
  /\ [][ (framebufferResized_ /\ ~framebufferResized_') =>
            /\ pc = "end"
            /\ pc' \in RecreatePcs
            /\ recreateCaller' = "EndFrame" ]_vars
  /\ [][ (pc = "end" /\ framebufferResized_ /\ pc' \notin {"end", "failed"}) =>
            pc' \in RecreatePcs ]_vars
  /\ [][ (pc = "end" /\ pc' = "end_ret") => ~framebufferResized_ ]_vars

C34_Witness ==
  /\ pc = "rc_idle"
  /\ recreateCaller = "EndFrame"
  /\ presentResult = "VK_SUCCESS"
  /\ ~framebufferResized_

\* C35: whenever Engine::Render is about to start, and up to the return of
\* EndFrame, bufferId_ equals the Context's currentFrame_; when EndFrame has
\* returned currentFrame_ is one ahead and Render's last statement brings
\* bufferId_ level again; a frame skipped after a rebuild in BeginFrame
\* changes neither index.
C35_BufferIdFollowsCurrentFrame ==
  /\ [](pc \in {"loop", "begin", "begin_ret", "end"} =>
          bufferId_ = currentFrame_)
  /\ [](pc = "end_ret" =>
          currentFrame_ = (bufferId_ + 1) % kMaxFramesInFlight)
  /\ [][ (pc = "end_ret" /\ pc' = "loop") =>
            /\ bufferId_' = (bufferId_ + 1) % kMaxFramesInFlight
            /\ currentFrame_' = currentFrame_
            /\ bufferId_' = currentFrame_' ]_vars
  /\ [][ (pc = "begin_ret" /\ pc' = "loop") =>
            /\ bufferId_' = bufferId_
            /\ currentFrame_' = currentFrame_ ]_vars

C35_Witness ==
  /\ pc = "loop"
  /\ bufferId_ = 1
  /\ currentFrame_ = 1
  /\ swapchainId = 1
  /\ Len(graphicsQueue_) = 1

C37_TeardownAfterDeviceIdle ==
  /\ [][ resources' # resources =>
           /\ pc \in {"deinitialize", "cleanup"}
           /\ graphicsQueue_ = <<>>
           /\ presentQueue_ = <<>> ]_vars
  /\ [](pc \in {"deinitialize", "cleanup", "cleaned"} =>
          /\ graphicsQueue_ = <<>>
          /\ presentQueue_ = <<>>)

C37_Witness ==
  /\ pc = "cleaned"
  /\ bufferId_ = 1
  /\ resources["device_"] = 0

\* C38: once CleanupSwapchain has run, the vectors of the swapchain's
\* framebuffers and image views hold no handle of a destroyed object: both
\* are empty, so that running the destruction loops again would destroy
\* nothing a second time.
C38_NoDestroyedHandlesKept ==
  pc \in {"cleanup", "cleaned"} =>
    /\ swapchainFramebuffers_ = 0
    /\ imageViewHandles = swapchainImageViews_
    /\ imageViewHandles = 0

\* C39: when Engine::Render has recorded the draw of a node and written its
\* uniform data, the data is in the uniform buffer that the descriptor set
\* of the node's program for the slot bufferId_ refers to, whichever
\* program that is and whatever was registered before it.
C39_UniformDataReachesDrawnProgram ==
  (pc = "end" /\ recordedInFrame) =>
    LET node == components_["nodes"][1]
        surface == components_["surfaces"][node[1] + 1]
        program == surface[1]
        referenced == resources_["programs"][program + 1][bufferId_ + 1]
    IN  uniformBufferMappedMemories_[referenced] = 1

\* C40: an Add* call that throws leaves the Engine's component and resource
\* tables as they were, and an Add* call that returns gives the id that
\* equals the number of components of that kind added successfully before
\* it.
C40_FailedAddLeavesTablesUnchanged ==
  [][ addCalls' # addCalls =>
        IF lastAdd'.thrown
          THEN /\ components_' = components_
               /\ resources_' = resources_
          ELSE \A k \in ComponentKinds :
                 components_'[k] # components_[k] =>
                   /\ lastAdd'.id = Len(components_[k])
                   /\ resources_'[k] # resources_[k] =>
                        lastAdd'.id = Len(resources_[k]) ]_vars

====
